---- MODULE Spec2Model ----
(***************************************************************************)
(* LiteFetch request automation core.                                      *)
(*                                                                         *)
(* Part 1: the bulk execution scheduler, runWithConcurrency                *)
(* (lib/runtime/requestExecution.ts) driven by executeBulkRun              *)
(* (lib/runtime/bulkRun.ts), which is its only caller.                     *)
(*                                                                         *)
(* JavaScript runs one continuation at a time; every `await` is a          *)
(* suspension point, also when the awaited value is not a promise.  Each   *)
(* action below is one such continuation, run to its next `await`.         *)
(***************************************************************************)
EXTENDS Integers, Sequences, FiniteSets, TLC

\* ------------------------------------------------------------------ bounds
MaxItems == 2

\* items.length ranges over 0..MaxItems; the concurrency argument over values
\* below 1, inside 1..N and above N.
ItemCounts == 0..MaxItems
ConcurrencyValues == (0 - 1)..(MaxItems + 1)

Max(a, b) == IF a >= b THEN a ELSE b
Min(a, b) == IF a <= b THEN a ELSE b

\* ------------------------------------------------------------------ values
\* RequestResult as far as bulkRun.ts reads it: status_code and error
\* ("none" stands for an absent error field).
NoError == "none"
RequestResults ==
  { [status_code |-> 201, error |-> NoError],
    [status_code |-> 404, error |-> NoError],
    [status_code |-> 0,   error |-> NoError],
    [status_code |-> 200, error |-> "timeout"] }
NoResult == [status_code |-> 0 - 1, error |-> NoError]
Threw == [status_code |-> 0 - 2, error |-> "threw"]
NotRun == [status_code |-> 0 - 3, error |-> "notrun"]
\* What awaiting item.execute() can produce: a result, or an exception.
ExecuteOutcomes == RequestResults \cup {Threw}

\* PromiseSettledResult<R>.  `of` names the worker invocation whose value or
\* reason this is; an array slot never written is Unset.
Unset == [status |-> "unset", of |-> 0 - 1, value |-> NoResult, reason |-> "none"]
Fulfilled(i, v) == [status |-> "fulfilled", of |-> i, value |-> v, reason |-> "none"]
Rejected(i, why) == [status |-> "rejected", of |-> i, value |-> NoResult, reason |-> why]

\* bulkRun.ts:4-7: BulkRunItem.requestId is a string.  Item i of a list
\* carries the id "req-<i>"; a list may also have the empty id on its first
\* item.  The ids of a list are distinct.
RequestIdOf(i) == "req-" \o ToString(i)
ItemsOf(n) == [k \in 1..n |-> [requestId |-> RequestIdOf(k - 1)]]
BlankFirst(list) ==
  [k \in DOMAIN list |-> IF k = 1 THEN [requestId |-> ""] ELSE list[k]]
ItemLists ==
  {ItemsOf(n) : n \in ItemCounts} \cup {BlankFirst(ItemsOf(n)) : n \in ItemCounts \ {0}}

VARIABLES
  items,             \* the items argument (0-based index i is items[i + 1])
  concurrency,       \* the concurrency argument
  phase,             \* "idle" | "running" | "collected" | "returned" | "rejected"
  cursor,            \* requestExecution.ts:9
  runners,           \* the runner() invocations of requestExecution.ts:25
  results,           \* requestExecution.ts:8, index -> settlement
  reportItems,       \* bulkRun.ts:39
  report,            \* the value executeBulkRun resolves with
  pendingErrorHooks, \* onItemError calls made with `void`, still running
  events,            \* history: per item, the calls made for it, in order
  invoked,           \* history: per item, how often worker was invoked
  execOutcome,       \* history: per item, what its execute produced
  workerOutcome      \* history: per item, how its worker promise settled

bulkVars == <<items, concurrency, phase, cursor, runners, results, reportItems,
              report, pendingErrorHooks, events, invoked, execOutcome,
              workerOutcome>>

VARIABLES
  byRequest,         \* useRequestRevisionStore: requestId -> RequestRevisionState
  lastCall,          \* history: the last store call, its arguments and result
  before             \* history: byRequest as that call found it

revVars == <<byRequest, lastCall, before>>

VARIABLES
  heap,              \* the JavaScript heap: reference -> object
  held,              \* the references the store's caller holds, each with its origin
  refStore,          \* byRequest with every snapshot as a reference into heap
  storedAs,          \* history: per stored reference, its content when it was stored
  aliasCall          \* history: the last step and the reference it returned

aliasVars == <<heap, held, refStore, storedAs, aliasCall>>

VARIABLES
  tpc,               \* "idle" | "input" | "extracted" | "resolved" | "found" | "rendered"
  tInput,            \* the input argument of the variable engine's functions
  tContext,          \* the context argument
  tTokens,           \* what extractVariableTokens(tInput) returned
  tResolutions,      \* per token, what resolveVariableToken(token, tContext) returned
  tUnresolved,       \* what findUnresolvedVariables(tInput, tContext) returned
  tRendered          \* what resolveTemplateText(tInput, tContext) returned

templateVars == <<tpc, tInput, tContext, tTokens, tResolutions, tUnresolved, tRendered>>

VARIABLES
  trip               \* history: the current run of undos (redos) and the redos (undos) after it

VARIABLES
  lock,              \* useWorkspaceLockStore: the five state fields
  unlock,            \* the setUnlocked call: where it is, its argument, what it sent and got
  lockCall,          \* history: the last store call that completed, and what it returned
  lockBefore         \* history: lock as the last step of that call found it

lockVars == <<lock, unlock, lockCall, lockBefore>>

N == Len(items)
Indices == 0..(N - 1)

NoReport == [total |-> 0 - 1, passed |-> 0, failed |-> 0, items |-> <<>>]

\* Limit with the concurrency argument ignored: one runner per item.
LimitIgnoresConcurrency(c, n) == n

\* requestExecution.ts:7
Limit(c, n) == Max(1, Min(c, n))

\* A runner is suspended at one of the awaits of the worker
\* ("onItemStart", "execute", "onItemDone"), or at its own `await worker(...)`
\* with the worker promise already settled ("settled"), or has returned.
RunnerAt(pc, idx, value, settlement) ==
  [pc |-> pc, idx |-> idx, value |-> value, settlement |-> settlement]

InFlightPcs == {"onItemStart", "execute", "onItemDone"}
InFlight(rs) == Cardinality({r \in DOMAIN rs : rs[r].pc \in InFlightPcs})

\* bulkRun.ts:43-44: the worker body up to its first await.
worker(m, r, idx) ==
  [m EXCEPT !.runners[r] = RunnerAt("onItemStart", idx, NoResult, Unset),
            !.events[idx] = Append(@, "onItemStart"),
            !.invoked[idx] = @ + 1]

\* runner with `cursor += 1` moved before the read of idx.
runnerPreIncrement(m, r) ==
  LET idx == m.cursor + 1
      claimed == [m EXCEPT !.cursor = m.cursor + 1]
  IN  IF idx >= N
        THEN [claimed EXCEPT !.runners[r] = RunnerAt("returned", idx, NoResult, Unset)]
        ELSE worker(claimed, r, idx)

\* requestExecution.ts:12-17: one turn of the runner loop, from the claim of
\* an index to the await of the worker (or the return).
runner(m, r) ==
  LET idx == m.cursor
      claimed == [m EXCEPT !.cursor = m.cursor + 1]
  IN  IF idx >= N
        THEN [claimed EXCEPT !.runners[r] = RunnerAt("returned", idx, NoResult, Unset)]
        ELSE worker(claimed, r, idx)

RECURSIVE StartRunners(_, _)
\* requestExecution.ts:25: Array.from({length: limit}, () => runner()).
StartRunners(m, k) ==
  IF k = 0 THEN m ELSE runner(StartRunners(m, k - 1), k)

Machine == [cursor |-> cursor, runners |-> runners, events |-> events, invoked |-> invoked]

Install(m) ==
  /\ cursor' = m.cursor
  /\ runners' = m.runners
  /\ events' = m.events
  /\ invoked' = m.invoked

BulkInit ==
  /\ items \in ItemLists
  /\ concurrency \in ConcurrencyValues
  /\ phase = "idle"
  /\ cursor = 0
  /\ runners = <<>>
  /\ results = [i \in Indices |-> Unset]
  /\ reportItems = <<>>
  /\ report = NoReport
  /\ pendingErrorHooks = {}
  /\ events = [i \in Indices |-> <<>>]
  /\ invoked = [i \in Indices |-> 0]
  /\ execOutcome = [i \in Indices |-> NotRun]
  /\ workerOutcome = [i \in Indices |-> Unset]

\* bulkRun.ts:38-41 and requestExecution.ts:6-25: executeBulkRun is called and
\* runs, through runWithConcurrency, to the first await of every runner.
Launch ==
  /\ phase = "idle"
  /\ phase' = "running"
  /\ LET limit == IF N = 0 THEN 0 ELSE Limit(concurrency, N)
         fresh == [Machine EXCEPT
                     !.runners = [r \in 1..limit |-> RunnerAt("new", 0 - 1, NoResult, Unset)]]
     IN  Install(StartRunners(fresh, limit))
  /\ UNCHANGED <<items, concurrency, results, reportItems, report,
                 pendingErrorHooks, execOutcome, workerOutcome>>

\* The worker promise of item idx settles: the runner of requestExecution.ts:17
\* will resume with this settlement.
WorkerSettles(r, idx, s) ==
  /\ runners' = [runners EXCEPT ![r] = RunnerAt("settled", idx, NoResult, s)]
  /\ workerOutcome' = [workerOutcome EXCEPT ![idx] = s]

\* bulkRun.ts:44-45: the await of hooks.onItemStart ends.  A hook that threw
\* or rejected ends the worker; otherwise item.execute() is called.
AfterOnItemStart(r) ==
  /\ phase = "running"
  /\ r \in DOMAIN runners
  /\ runners[r].pc = "onItemStart"
  /\ LET idx == runners[r].idx IN
     \E hookOk \in BOOLEAN :
       IF hookOk
         THEN /\ runners' = [runners EXCEPT ![r].pc = "execute"]
              /\ events' = [events EXCEPT ![idx] = Append(@, "execute")]
              /\ UNCHANGED workerOutcome
         ELSE /\ WorkerSettles(r, idx, Rejected(idx, "onItemStartError"))
              /\ UNCHANGED events
  /\ UNCHANGED <<items, concurrency, phase, cursor, results, reportItems, report,
                 pendingErrorHooks, invoked, execOutcome>>

\* bulkRun.ts:45-46: the await of item.execute() ends.  An exception ends the
\* worker; a result is handed to hooks.onItemDone.
AfterExecute(r) ==
  /\ phase = "running"
  /\ r \in DOMAIN runners
  /\ runners[r].pc = "execute"
  /\ LET idx == runners[r].idx IN
     \E out \in ExecuteOutcomes :
       /\ execOutcome' = [execOutcome EXCEPT ![idx] = out]
       /\ IF out = Threw
            THEN /\ WorkerSettles(r, idx, Rejected(idx, "executeError"))
                 /\ UNCHANGED events
            ELSE /\ runners' = [runners EXCEPT ![r] = RunnerAt("onItemDone", idx, out, Unset)]
                 /\ events' = [events EXCEPT ![idx] = Append(@, "onItemDone")]
                 /\ UNCHANGED workerOutcome
  /\ UNCHANGED <<items, concurrency, phase, cursor, results, reportItems, report,
                 pendingErrorHooks, invoked>>

\* bulkRun.ts:47
IsFailed(result) == result.status_code >= 400 \/ result.error # NoError

\* bulkRun.ts:48-54
DoneRow(requestId, result) ==
  [requestId |-> requestId,
   status |-> IF IsFailed(result) THEN "failed" ELSE "passed",
   statusCode |-> result.status_code,
   error |-> result.error]

\* bulkRun.ts:63-69
ErrorRow(requestId, reason) ==
  [requestId |-> requestId, status |-> "failed", statusCode |-> 0, error |-> reason]

\* AfterOnItemDone with the row pushed before hooks.onItemDone is awaited: a
\* failing hook leaves the row behind.
AfterOnItemDonePushesFirst(r) ==
  /\ phase = "running"
  /\ r \in DOMAIN runners
  /\ runners[r].pc = "onItemDone"
  /\ LET idx == runners[r].idx
         result == runners[r].value
     IN
     \E hookOk \in BOOLEAN :
       /\ reportItems' = Append(reportItems, DoneRow(items[idx + 1].requestId, result))
       /\ IF hookOk
            THEN WorkerSettles(r, idx, Fulfilled(idx, result))
            ELSE WorkerSettles(r, idx, Rejected(idx, "onItemDoneError"))
  /\ UNCHANGED <<items, concurrency, phase, cursor, results, report,
                 pendingErrorHooks, events, invoked, execOutcome>>

\* bulkRun.ts:46-55: the await of hooks.onItemDone ends.  A hook that threw or
\* rejected ends the worker before the row is pushed; otherwise the row is
\* pushed and the worker returns the result.
AfterOnItemDone(r) ==
  /\ phase = "running"
  /\ r \in DOMAIN runners
  /\ runners[r].pc = "onItemDone"
  /\ LET idx == runners[r].idx
         result == runners[r].value
     IN
     \E hookOk \in BOOLEAN :
       IF hookOk
         THEN /\ reportItems' = Append(reportItems, DoneRow(items[idx + 1].requestId, result))
              /\ WorkerSettles(r, idx, Fulfilled(idx, result))
         ELSE /\ WorkerSettles(r, idx, Rejected(idx, "onItemDoneError"))
              /\ UNCHANGED reportItems
  /\ UNCHANGED <<items, concurrency, phase, cursor, results, report,
                 pendingErrorHooks, events, invoked, execOutcome>>

\* RecordSettlement as results.push(settlement): the first free slot.
RecordSettlementPush(res, idx, s) ==
  LET free == {i \in DOMAIN res : res[i].status = "unset"}
      k == CHOOSE i \in free : \A j \in free : i <= j
  IN  [res EXCEPT ![k] = s]

\* requestExecution.ts:18 and :20: results[idx] = settlement.
RecordSettlement(res, idx, s) == [res EXCEPT ![idx] = s]

\* RunnerResumes on a fixed slice of one item: the runner records the
\* settlement and returns without claiming another index.
RunnerResumesOnce(r) ==
  /\ phase = "running"
  /\ r \in DOMAIN runners
  /\ runners[r].pc = "settled"
  /\ results' = RecordSettlement(results, runners[r].idx, runners[r].settlement)
  /\ runners' = [runners EXCEPT ![r].pc = "returned"]
  /\ UNCHANGED <<cursor, events, invoked>>
  /\ UNCHANGED <<items, concurrency, phase, reportItems, report,
                 pendingErrorHooks, execOutcome, workerOutcome>>

\* RunnerResumes without the try/catch: a rejection ends the runner.
RunnerResumesNoCatch(r) ==
  /\ phase = "running"
  /\ r \in DOMAIN runners
  /\ runners[r].pc = "settled"
  /\ IF runners[r].settlement.status = "rejected"
       THEN /\ runners' = [runners EXCEPT ![r].pc = "returned"]
            /\ UNCHANGED <<results, cursor, events, invoked>>
       ELSE /\ results' = RecordSettlement(results, runners[r].idx, runners[r].settlement)
            /\ Install(runner(Machine, r))
  /\ UNCHANGED <<items, concurrency, phase, reportItems, report,
                 pendingErrorHooks, execOutcome, workerOutcome>>

\* requestExecution.ts:16-22, then :12-17 again: the runner resumes from
\* `await worker(...)`, records the settlement (the catch keeps a rejection
\* inside the loop) and takes its next turn.
RunnerResumes(r) ==
  /\ phase = "running"
  /\ r \in DOMAIN runners
  /\ runners[r].pc = "settled"
  /\ results' = RecordSettlement(results, runners[r].idx, runners[r].settlement)
  /\ Install(runner(Machine, r))
  /\ UNCHANGED <<items, concurrency, phase, reportItems, report,
                 pendingErrorHooks, execOutcome, workerOutcome>>

\* bulkRun.ts:61: items[idx]?.requestId || `item-${idx}`
ErrorRequestId(list, idx) ==
  IF list[idx + 1].requestId # "" THEN list[idx + 1].requestId
  ELSE "item-" \o ToString(idx)

RECURSIVE Collect(_, _, _, _)
\* bulkRun.ts:59-70: settled.forEach from index i on.  forEach skips the slots
\* never written; a fulfilled entry returns at once; for a rejected entry
\* onItemError is called without await and the failed row is pushed.  throwAt
\* is the index whose onItemError call throws synchronously (N: none does),
\* which ends the callback there.
Collect(st, settled, i, throwAt) ==
  IF i >= N THEN st
  ELSE IF settled[i].status # "rejected" THEN Collect(st, settled, i + 1, throwAt)
  ELSE LET called == [st EXCEPT !.events[i] = Append(@, "onItemError")] IN
       IF i = throwAt
         THEN [called EXCEPT !.thrown = TRUE]
         ELSE Collect([called EXCEPT
                         !.pending = @ \cup {i},
                         !.reportItems = Append(@, ErrorRow(ErrorRequestId(items, i),
                                                            settled[i].reason))],
                      settled, i + 1, throwAt)

\* ThenCallback as soon as one runner has returned (Promise.race for
\* Promise.all).
ThenCallbackOnFirstReturn ==
  /\ phase = "running"
  /\ \/ runners = <<>>
     \/ \E r \in DOMAIN runners : runners[r].pc = "returned"
  /\ \E throwAt \in {i \in Indices : results[i].status = "rejected"} \cup {N} :
       LET st == Collect([events |-> events, reportItems |-> reportItems,
                          pending |-> pendingErrorHooks, thrown |-> FALSE],
                         results, 0, throwAt)
       IN  /\ events' = st.events
           /\ reportItems' = st.reportItems
           /\ pendingErrorHooks' = st.pending
           /\ phase' = IF st.thrown THEN "rejected" ELSE "collected"
  /\ UNCHANGED <<items, concurrency, cursor, runners, results, report, invoked,
                 execOutcome, workerOutcome>>

\* requestExecution.ts:25-26 and bulkRun.ts:58-71: every runner has returned,
\* runWithConcurrency resolves with results and the then-callback runs.
ThenCallback ==
  /\ phase = "running"
  /\ \A r \in DOMAIN runners : runners[r].pc = "returned"
  /\ \E throwAt \in {i \in Indices : results[i].status = "rejected"} \cup {N} :
       LET st == Collect([events |-> events, reportItems |-> reportItems,
                          pending |-> pendingErrorHooks, thrown |-> FALSE],
                         results, 0, throwAt)
       IN  /\ events' = st.events
           /\ reportItems' = st.reportItems
           /\ pendingErrorHooks' = st.pending
           /\ phase' = IF st.thrown THEN "rejected" ELSE "collected"
  /\ UNCHANGED <<items, concurrency, cursor, runners, results, report, invoked,
                 execOutcome, workerOutcome>>

\* bulkRun.ts:74
Passed(rows) == Cardinality({k \in DOMAIN rows : rows[k].status = "passed"})

\* bulkRun.ts:73-85: the await of bulkRun.ts:41 ends and the report is built.
Return ==
  /\ phase = "collected"
  /\ phase' = "returned"
  /\ report' = [total |-> N,
                passed |-> Passed(reportItems),
                failed |-> Len(reportItems) - Passed(reportItems),
                items |-> reportItems]
  /\ UNCHANGED <<items, concurrency, cursor, runners, results, reportItems,
                 pendingErrorHooks, events, invoked, execOutcome, workerOutcome>>

\* bulkRun.ts:62: an onItemError call made with `void` finishes on its own
\* time, whatever executeBulkRun has done meanwhile.
OnItemErrorCompletes(i) ==
  /\ i \in pendingErrorHooks
  /\ pendingErrorHooks' = pendingErrorHooks \ {i}
  /\ UNCHANGED <<items, concurrency, phase, cursor, runners, results, reportItems,
                 report, events, invoked, execOutcome, workerOutcome>>


(***************************************************************************)
(* Part 2: the revision history store, useRequestRevisionStore (kept in    *)
(* stores/useRunSettingsStore.ts below the run settings store) and the     *)
(* snapshot hash of lib/history/requestRevisions.ts.                       *)
(*                                                                         *)
(* A text is the sequence of its UTF-16 code units.  A 32-bit hash is a    *)
(* pair <<hi, lo>> of 16-bit halves, so that no product leaves the range   *)
(* of 32-bit signed integers.                                              *)
(***************************************************************************)

RECURSIVE BitXor(_, _)
\* a ^ b on non-negative integers (requestRevisions.ts:13).
BitXor(a, b) ==
  IF a = 0 THEN b
  ELSE IF b = 0 THEN a
  ELSE (((a % 2) + (b % 2)) % 2) + 2 * BitXor(a \div 2, b \div 2)

\* requestRevisions.ts:13-14: hash ^= code; hash = Math.imul(hash, 16777619),
\* on the halves: 16777619 = 2^24 + 403.
FnvStep(h, code) ==
  LET lo == BitXor(h[2], code % 65536)
      t == lo * 403
  IN  << (h[1] * 403 + (t \div 65536) + (lo % 256) * 256) % 65536, t % 65536 >>

RECURSIVE FnvSpan(_, _, _, _, _)
\* requestRevisions.ts:12-15 and :18-21: `count` turns of the loop, from
\* position i (0-based) with the given step.  The turns are taken half by
\* half to keep the evaluation shallow; each half is evaluated before the
\* next is begun (the test on mid is always true).
FnvSpan(input, i, count, step, h) ==
  IF count = 0 THEN h
  ELSE IF count = 1 THEN FnvStep(h, input[i + 1])
  ELSE LET half == count \div 2
           mid == FnvSpan(input, i, half, step, h)
       IN  IF mid[1] >= 0 THEN FnvSpan(input, i + half * step, count - half, step, mid)
           ELSE mid

\* requestRevisions.ts:12-15 and :18-21: the loop from position i (0-based)
\* with the given step, to the end of the input.
FnvFrom(input, i, step, h) ==
  IF i >= Len(input) THEN h
  ELSE FnvSpan(input, i, (Len(input) - i + step - 1) \div step, step, h)

HexDigit(d) == IF d < 10 THEN 48 + d ELSE 87 + d

RECURSIVE ToHex(_)
\* Number.prototype.toString(16) of a non-negative integer.
ToHex(n) == IF n < 16 THEN <<HexDigit(n)>> ELSE Append(ToHex(n \div 16), HexDigit(n % 16))

\* (hash >>> 0).toString(16) of the halves <<hi, lo>>: lo is padded to four
\* digits when hi is not zero.
HashHex(h) ==
  IF h[1] = 0 THEN ToHex(h[2])
  ELSE ToHex(h[1]) \o <<HexDigit(h[2] \div 4096), HexDigit((h[2] \div 256) % 16),
                        HexDigit((h[2] \div 16) % 16), HexDigit(h[2] % 16)>>

RECURSIVE ToDecimal(_)
\* String(n) of a non-negative integer.
ToDecimal(n) == IF n < 10 THEN <<48 + n>> ELSE Append(ToDecimal(n \div 10), 48 + (n % 10))

\* requestRevisions.ts:8-24.  2166136261 is 0x811C9DC5: the halves 33052, 40389.
hashText(value, maxSamples) ==
  LET input == value
      step == IF Len(input) <= maxSamples THEN 1
              ELSE Max(1, Len(input) \div maxSamples)
  IN  HashHex(FnvFrom(input, 0, step, <<33052, 40389>>)) \o <<58>> \o ToDecimal(Len(input))

RECURSIVE Join(_, _)
\* Array.prototype.join of texts.
Join(parts, sep) ==
  IF Len(parts) = 0 THEN <<>>
  ELSE IF Len(parts) = 1 THEN parts[1]
  ELSE parts[1] \o sep \o Join(Tail(parts), sep)

\* requestRevisions.ts:43-45: one row of rowListFingerprint.
RowFingerprint(row) ==
  <<IF row.enabled = FALSE THEN 48 ELSE 49>> \o <<58>>
  \o <<IF row.secret THEN 49 ELSE 48>> \o <<58>>
  \o row.type \o <<58>>
  \o row.key \o <<61>> \o row.value \o <<58>>
  \o row.file_path \o <<58>>
  \o row.file_name \o <<58>>
  \o hashText(row.file_inline, 256)

\* requestRevisions.ts:26-47
rowListFingerprint(rows) ==
  Join([k \in DOMAIN rows |-> RowFingerprint(rows[k])], <<31>>)

RECURSIVE TextLess(_, _)
\* a.localeCompare(b) < 0 for keys of lower-case ASCII letters: code unit order.
TextLess(a, b) ==
  IF Len(b) = 0 THEN FALSE
  ELSE IF Len(a) = 0 THEN TRUE
  ELSE IF a[1] # b[1] THEN a[1] < b[1]
  ELSE TextLess(Tail(a), Tail(b))

\* SortByKey leaving the entries in insertion order.
SortByKeyKeepsOrder(pairs) == pairs

RECURSIVE SortByKey(_)
\* requestRevisions.ts:51: Array.prototype.sort by key (keys are distinct:
\* they are the keys of one object).
SortByKey(pairs) ==
  IF Len(pairs) <= 1 THEN pairs
  ELSE LET least == CHOOSE k \in DOMAIN pairs :
                      \A j \in DOMAIN pairs : j = k \/ TextLess(pairs[k][1], pairs[j][1])
           rest == [j \in 1..(Len(pairs) - 1) |-> IF j < least THEN pairs[j] ELSE pairs[j + 1]]
       IN  <<pairs[least]>> \o SortByKey(rest)

\* requestRevisions.ts:49-74.  auth_params is the list of Object.entries in
\* insertion order; binary is null in the snapshots modelled, so its three
\* parts are those of the empty text.
getRevisionSnapshotHash(snapshot) ==
  LET sorted == SortByKey(snapshot.auth_params)
      authPairs == Join([k \in DOMAIN sorted |-> sorted[k][1] \o <<61>> \o sorted[k][2]], <<31>>)
      extractPairs == Join([k \in DOMAIN snapshot.extract_rules |->
                              snapshot.extract_rules[k].source_path \o <<45, 62>>
                              \o snapshot.extract_rules[k].target_variable], <<31>>)
      fingerprintInput ==
        Join(<< snapshot.name,
                snapshot.method,
                snapshot.url,
                snapshot.body_mode,
                hashText(snapshot.body, 8192),
                rowListFingerprint(snapshot.headers),
                rowListFingerprint(snapshot.query_params),
                rowListFingerprint(snapshot.form_body),
                (IF Len(snapshot.auth_type) = 0 THEN <<110, 111, 110, 101>> ELSE snapshot.auth_type)
                  \o <<58>> \o authPairs,
                extractPairs,
                IF snapshot.secret_body THEN <<115, 101, 99, 114, 101, 116>>
                                        ELSE <<112, 108, 97, 105, 110>>,
                <<>>,
                <<>>,
                hashText(<<>>, 2048) >>, <<30>>)
  IN  hashText(fingerprintInput, 8192)

\* A header / query / form row with the fields RowFingerprint reads.
Row(key, value) ==
  [key |-> key, value |-> value, enabled |-> TRUE, secret |-> FALSE, type |-> <<>>,
   file_path |-> <<>>, file_name |-> <<>>, file_inline |-> <<>>]

\* FormValues (RequestSettingsTab.tsx:166-184): the fingerprinted fields and,
\* of the fields the hash does not read, secret_headers.
FormValues(url, headers, auth_params) ==
  [name |-> <<114, 49>>,                       \* "r1"
   method |-> <<71, 69, 84>>,                  \* "GET"
   url |-> url,
   body |-> <<>>,
   body_mode |-> <<114, 97, 119>>,             \* "raw"
   headers |-> headers,
   extract_rules |-> <<>>,
   form_body |-> <<>>,
   query_params |-> <<>>,
   auth_type |-> <<98, 97, 115, 105, 99>>,     \* "basic"
   auth_params |-> auth_params,
   secret_body |-> FALSE]

\* FormValues with two rows in headers, query_params or form_body.
FormValuesWithRows(headers, query_params, form_body) ==
  [FormValues(<<47, 97>>, headers, << <<<<117>>, <<97>>>>, <<<<112>>, <<98>>>> >>)
     EXCEPT !.query_params = query_params, !.form_body = form_body]

\* The rows x=1 and y=2, in both orders.
RowsXY == <<Row(<<120>>, <<49>>), Row(<<121>>, <<50>>)>>
RowsYX == <<Row(<<121>>, <<50>>), Row(<<120>>, <<49>>)>>

\* Editor states, held in the store by name: "A" and "A2" differ only in the
\* insertion order of auth_params ("u", "p"); "B" has another url; "H" and
\* "H2" differ only in the order of two header rows, "Q" and "Q2" of two
\* query-param rows, "F" and "F2" of two form rows.
Snapshots == {"A", "A2", "B", "H", "H2", "Q", "Q2", "F", "F2"}
FormValuesOf(name) ==
  IF name = "H" THEN FormValuesWithRows(RowsXY, <<>>, <<>>)
  ELSE IF name = "H2" THEN FormValuesWithRows(RowsYX, <<>>, <<>>)
  ELSE IF name = "Q" THEN FormValuesWithRows(<<>>, RowsXY, <<>>)
  ELSE IF name = "Q2" THEN FormValuesWithRows(<<>>, RowsYX, <<>>)
  ELSE IF name = "F" THEN FormValuesWithRows(<<>>, <<>>, RowsXY)
  ELSE IF name = "F2" THEN FormValuesWithRows(<<>>, <<>>, RowsYX)
  ELSE IF name = "A"
    THEN FormValues(<<47, 97>>, <<Row(<<120>>, <<49>>)>>,
                    << <<<<117>>, <<97>>>>, <<<<112>>, <<98>>>> >>)
  ELSE IF name = "A2"
    THEN FormValues(<<47, 97>>, <<Row(<<120>>, <<49>>)>>,
                    << <<<<112>>, <<98>>>>, <<<<117>>, <<97>>>> >>)
  ELSE FormValues(<<47, 98>>, <<Row(<<120>>, <<49>>)>>,
                  << <<<<117>>, <<97>>>>, <<<<112>>, <<98>>>> >>)

\* getRevisionSnapshotHash, computed once per snapshot.
SnapshotHash == [s \in Snapshots |-> getRevisionSnapshotHash(FormValuesOf(s))]

\* ------------------------------------------------------------ the store
\* Bounds of the revision model.  Request "r1" is edited with the three
\* snapshots "A", "A2", "B" and keeps at most MaxShortEntries entries; request "r2" is
\* edited with "A" and "B" alone and may grow to the cap of the code.  No
\* request is undone more than MaxUndoDepth steps below its newest entry.
MaxShortEntries == 2
MaxUndoDepth == 2

\* requestRevisions.ts:76
MAX_REVISIONS_PER_REQUEST == 30

RequestIds == {"r1", "r2"}
SnapshotsFor(requestId) == IF requestId = "r1" THEN {"A", "A2", "B"} ELSE {"A", "B"}
EntryBound(requestId) ==
  IF requestId = "r1" THEN MaxShortEntries ELSE MAX_REVISIONS_PER_REQUEST

\* requestRevisions.ts:5-6: structuredClone gives an equal value.
cloneRevisionSnapshot(snapshot) == snapshot

\* useRunSettingsStore.ts:105-109 (the timestamp is not modelled).
createEntry(snapshot) ==
  [snapshot |-> cloneRevisionSnapshot(snapshot), hash |-> SnapshotHash[snapshot]]

\* Put without the spread of state.byRequest: the other requests are lost.
PutDropsOthers(store, requestId, value) ==
  [id \in {requestId} |-> value]

\* { ...state.byRequest, [requestId]: value }
Put(store, requestId, value) ==
  [id \in DOMAIN store \cup {requestId} |-> IF id = requestId THEN value ELSE store[id]]

\* Array.prototype.slice(from, to) on a 1-based sequence, 0-based arguments.
Slice(seq, from, to) == SubSeq(seq, from + 1, Min(to, Len(seq)))

EmptyStore == [id \in {} |-> [entries |-> <<>>, index |-> 0]]
NoCall == [op |-> "none", requestId |-> "none", snapshot |-> <<>>, returned |-> <<>>]
Call(op, requestId, snapshot, returned) ==
  [op |-> op, requestId |-> requestId, snapshot |-> snapshot, returned |-> returned]

\* The store after one call, and the record of the call.
Called(store, call) ==
  /\ byRequest' = store
  /\ lastCall' = call
  /\ before' = byRequest

\* initRequestHistory leaving a request that already has a state as it is.
initKeepsExisting(requestId, snapshot) ==
  IF requestId \in DOMAIN byRequest
    THEN Called(byRequest, Call("initRequestHistory", requestId, <<snapshot>>, <<>>))
    ELSE Called(Put(byRequest, requestId, [entries |-> <<createEntry(snapshot)>>, index |-> 0]),
                Call("initRequestHistory", requestId, <<snapshot>>, <<>>))

\* useRunSettingsStore.ts:114-126
initRequestHistory(requestId, snapshot) ==
  LET entry == createEntry(snapshot)
  IN  Called(Put(byRequest, requestId, [entries |-> <<entry>>, index |-> 0]),
             Call("initRequestHistory", requestId, <<snapshot>>, <<>>))

\* CaptureOver with `index: capped.length` for `capped.length - 1`.
CaptureOverIndexPastEnd(current, snapshot) ==
  LET hash == SnapshotHash[snapshot]
      active == current.entries[current.index + 1]
      truncated == Slice(current.entries, 0, current.index + 1)
      appended == Append(truncated, createEntry(snapshot))
      capped == IF Len(appended) > MAX_REVISIONS_PER_REQUEST
                  THEN Slice(appended, Len(appended) - MAX_REVISIONS_PER_REQUEST, Len(appended))
                  ELSE appended
  IN  IF active.hash = hash THEN current
      ELSE [entries |-> capped, index |-> Len(capped)]

\* CaptureOver without the comparison of hashes: every capture appends.
CaptureOverNoDedup(current, snapshot) ==
  LET truncated == Slice(current.entries, 0, current.index + 1)
      appended == Append(truncated, createEntry(snapshot))
      capped == IF Len(appended) > MAX_REVISIONS_PER_REQUEST
                  THEN Slice(appended, Len(appended) - MAX_REVISIONS_PER_REQUEST, Len(appended))
                  ELSE appended
  IN  [entries |-> capped, index |-> Len(capped) - 1]

\* CaptureOver without the slice to index + 1: the redo branch is kept.
CaptureOverKeepsRedo(current, snapshot) ==
  LET hash == SnapshotHash[snapshot]
      active == current.entries[current.index + 1]
      appended == Append(current.entries, createEntry(snapshot))
      capped == IF Len(appended) > MAX_REVISIONS_PER_REQUEST
                  THEN Slice(appended, Len(appended) - MAX_REVISIONS_PER_REQUEST, Len(appended))
                  ELSE appended
  IN  IF active.hash = hash THEN current
      ELSE [entries |-> capped, index |-> Len(capped) - 1]

\* CaptureOver with `appended.slice(0, MAX_REVISIONS_PER_REQUEST)`: at the cap
\* the newest entry is dropped instead of the oldest.
CaptureOverDropsNewest(current, snapshot) ==
  LET hash == SnapshotHash[snapshot]
      active == current.entries[current.index + 1]
      truncated == Slice(current.entries, 0, current.index + 1)
      appended == Append(truncated, createEntry(snapshot))
      capped == IF Len(appended) > MAX_REVISIONS_PER_REQUEST
                  THEN Slice(appended, 0, MAX_REVISIONS_PER_REQUEST)
                  ELSE appended
  IN  IF active.hash = hash THEN current
      ELSE [entries |-> capped, index |-> Len(capped) - 1]

\* CaptureOver comparing the hash with the newest entry's, not the active one's.
CaptureOverComparesNewest(current, snapshot) ==
  LET hash == SnapshotHash[snapshot]
      active == current.entries[Len(current.entries)]
      truncated == Slice(current.entries, 0, current.index + 1)
      appended == Append(truncated, createEntry(snapshot))
      capped == IF Len(appended) > MAX_REVISIONS_PER_REQUEST
                  THEN Slice(appended, Len(appended) - MAX_REVISIONS_PER_REQUEST, Len(appended))
                  ELSE appended
  IN  IF active.hash = hash THEN current
      ELSE [entries |-> capped, index |-> Len(capped) - 1]

\* useRunSettingsStore.ts:141-156: the capture over an existing state.
CaptureOver(current, snapshot) ==
  LET hash == SnapshotHash[snapshot]
      active == current.entries[current.index + 1]
      truncated == Slice(current.entries, 0, current.index + 1)
      appended == Append(truncated, createEntry(snapshot))
      capped == IF Len(appended) > MAX_REVISIONS_PER_REQUEST
                  THEN Slice(appended, Len(appended) - MAX_REVISIONS_PER_REQUEST, Len(appended))
                  ELSE appended
  IN  IF active.hash = hash THEN current
      ELSE [entries |-> capped, index |-> Len(capped) - 1]

\* useRunSettingsStore.ts:128-157
captureSnapshot(requestId, snapshot) ==
  IF requestId \notin DOMAIN byRequest
    THEN Called(Put(byRequest, requestId, [entries |-> <<createEntry(snapshot)>>, index |-> 0]),
                Call("captureSnapshot", requestId, <<snapshot>>, <<>>))
    ELSE /\ Len(CaptureOver(byRequest[requestId], snapshot).entries) <= EntryBound(requestId)
         /\ Called(Put(byRequest, requestId, CaptureOver(byRequest[requestId], snapshot)),
                   Call("captureSnapshot", requestId, <<snapshot>>, <<>>))

\* useRunSettingsStore.ts:159-162
canUndo(store, requestId) ==
  requestId \in DOMAIN store /\ store[requestId].index > 0

\* useRunSettingsStore.ts:164-167
canRedo(store, requestId) ==
  requestId \in DOMAIN store
  /\ store[requestId].index < Len(store[requestId].entries) - 1

\* undo returning the active snapshot, instead of null, at index 0.
undoReturnsActiveAtZero(requestId) ==
  IF requestId \notin DOMAIN byRequest
    THEN Called(byRequest, Call("undo", requestId, <<>>, <<>>))
  ELSE IF byRequest[requestId].index <= 0
    THEN Called(byRequest,
                Call("undo", requestId, <<>>,
                     <<cloneRevisionSnapshot(byRequest[requestId].entries[1].snapshot)>>))
    ELSE LET current == byRequest[requestId]
             nextIndex == current.index - 1
             entry == current.entries[nextIndex + 1]
         IN  /\ Len(current.entries) - current.index <= MaxUndoDepth
             /\ Called(Put(byRequest, requestId, [current EXCEPT !.index = nextIndex]),
                       Call("undo", requestId, <<>>, <<cloneRevisionSnapshot(entry.snapshot)>>))

\* undo that also drops the entries after the one it returns.
undoDropsRedoBranch(requestId) ==
  IF requestId \notin DOMAIN byRequest \/ byRequest[requestId].index <= 0
    THEN Called(byRequest, Call("undo", requestId, <<>>, <<>>))
    ELSE LET current == byRequest[requestId]
             nextIndex == current.index - 1
             entry == current.entries[nextIndex + 1]
         IN  /\ Len(current.entries) - current.index <= MaxUndoDepth
             /\ Called(Put(byRequest, requestId,
                           [entries |-> Slice(current.entries, 0, nextIndex + 1),
                            index |-> nextIndex]),
                       Call("undo", requestId, <<>>, <<cloneRevisionSnapshot(entry.snapshot)>>))

\* useRunSettingsStore.ts:169-181
undo(requestId) ==
  IF requestId \notin DOMAIN byRequest \/ byRequest[requestId].index <= 0
    THEN Called(byRequest, Call("undo", requestId, <<>>, <<>>))
    ELSE LET current == byRequest[requestId]
             nextIndex == current.index - 1
             entry == current.entries[nextIndex + 1]
         IN  /\ Len(current.entries) - current.index <= MaxUndoDepth
             /\ Called(Put(byRequest, requestId, [current EXCEPT !.index = nextIndex]),
                       Call("undo", requestId, <<>>, <<cloneRevisionSnapshot(entry.snapshot)>>))

\* redo reading the entry at current.index, not at nextIndex.
redoReturnsOld(requestId) ==
  IF requestId \notin DOMAIN byRequest
     \/ byRequest[requestId].index >= Len(byRequest[requestId].entries) - 1
    THEN Called(byRequest, Call("redo", requestId, <<>>, <<>>))
    ELSE LET current == byRequest[requestId]
             nextIndex == current.index + 1
             entry == current.entries[current.index + 1]
         IN  Called(Put(byRequest, requestId, [current EXCEPT !.index = nextIndex]),
                    Call("redo", requestId, <<>>, <<cloneRevisionSnapshot(entry.snapshot)>>))

\* useRunSettingsStore.ts:183-195
redo(requestId) ==
  IF requestId \notin DOMAIN byRequest
     \/ byRequest[requestId].index >= Len(byRequest[requestId].entries) - 1
    THEN Called(byRequest, Call("redo", requestId, <<>>, <<>>))
    ELSE LET current == byRequest[requestId]
             nextIndex == current.index + 1
             entry == current.entries[nextIndex + 1]
         IN  Called(Put(byRequest, requestId, [current EXCEPT !.index = nextIndex]),
                    Call("redo", requestId, <<>>, <<cloneRevisionSnapshot(entry.snapshot)>>))

\* clearRequestHistory re-seeding the state with its first entry, not
\* deleting it.
clearKeepsFirstEntry(requestId) ==
  Called(IF requestId \in DOMAIN byRequest
           THEN Put(byRequest, requestId,
                    [entries |-> <<byRequest[requestId].entries[1]>>, index |-> 0])
           ELSE byRequest,
         Call("clearRequestHistory", requestId, <<>>, <<>>))

\* useRunSettingsStore.ts:197-202
clearRequestHistory(requestId) ==
  Called([id \in DOMAIN byRequest \ {requestId} |-> byRequest[id]],
         Call("clearRequestHistory", requestId, <<>>, <<>>))

\* ------------------------------------------------- runs of undo and redo
\* No run: the last call was not a successful undo or redo.
NoTrip ==
  [id |-> "none", dir |-> "none", start |-> [entries |-> <<>>, index |-> 0],
   forward |-> <<>>, back |-> <<>>]

\* The run after the call `call`, which found the store as `store`.  A run is
\* k successful undos (redos) of one request followed by at most k
\* successful redos (undos): `start` is the request's state before the run,
\* `forward` the snapshot that was current before each of the k steps,
\* `back` the snapshot each of the opposite steps returned.
TripAfter(t, store, call) ==
  IF call.op \notin {"undo", "redo"} \/ call.returned = <<>> THEN NoTrip
  ELSE LET id == call.requestId
           current == store[id].entries[store[id].index + 1].snapshot
       IN  IF t.id = id /\ t.dir = call.op /\ t.back = <<>>
             THEN [t EXCEPT !.forward = Append(@, current)]
           ELSE IF t.id = id /\ t.dir # call.op /\ Len(t.back) < Len(t.forward)
             THEN [t EXCEPT !.back = Append(@, call.returned[1])]
           ELSE [id |-> id, dir |-> call.op, start |-> store[id],
                 forward |-> <<current>>, back |-> <<>>]

\* ------------------------------------------- the store, by reference
\* The same store with snapshots as objects of a heap, to tell a copy from an
\* alias.  A snapshot (FormValues) is an object with a primitive field (url)
\* and a field holding a reference to another object (the headers array); the
\* caller may change either through any reference it holds.
MaxSnapshotObjects == 5

AliasIds == {"r1"}
UrlTexts == {<<47, 97>>, <<47, 98>>}          \* "/a", "/b"
HeaderTexts == {<<49>>, <<50>>}               \* "1", "2"
Contents ==
  { [url |-> <<47, 97>>, header |-> <<49>>], [url |-> <<47, 97>>, header |-> <<50>>],
    [url |-> <<47, 98>>, header |-> <<49>>], [url |-> <<47, 98>>, header |-> <<50>>] }

FormValuesOfContent(c) ==
  FormValues(c.url, <<Row(<<120>>, c.header)>>,
             << <<<<117>>, <<97>>>>, <<<<112>>, <<98>>>> >>)

\* getRevisionSnapshotHash, computed once per content.
ContentHash == [c \in Contents |-> getRevisionSnapshotHash(FormValuesOfContent(c))]

NoRef == 0
ValuesObject(url, headersRef) == [kind |-> "values", text |-> url, child |-> headersRef]
RowsObject(header) == [kind |-> "rows", text |-> header, child |-> NoRef]

\* A new FormValues object and its headers array, at fresh references.
NewObject(h, c) ==
  [heap |-> h \o <<RowsObject(c.header), ValuesObject(c.url, Len(h) + 1)>>,
   ref |-> Len(h) + 2]

\* What reading the whole object at r gives.
DeepValue(h, r) == [url |-> h[r].text, header |-> h[h[r].child].text]

\* The references an object at r is made of.
Reach(h, r) == {r, h[r].child}

SnapshotObjects(h) == Cardinality({r \in DOMAIN h : h[r].kind = "values"})

\* `{ ...snapshot }` in place of structuredClone: a new top-level object that
\* shares the headers array.
shallowCopy(h, r) ==
  [heap |-> Append(h, ValuesObject(h[r].text, h[r].child)), ref |-> Len(h) + 1]

\* requestRevisions.ts:5-6: structuredClone copies the object and, recursively,
\* every object it refers to.
structuredClone(h, r) == NewObject(h, DeepValue(h, r))

\* useRunSettingsStore.ts:105-109 on references.
createEntryRef(h, r) ==
  LET copy == structuredClone(h, r)
  IN  [heap |-> copy.heap,
       entry |-> [snapshot |-> copy.ref, hash |-> ContentHash[DeepValue(h, r)]]]

EmptyHeap == <<>>
NoHeld == [r \in {} |-> "made"]
NoStoredAs == [r \in {} |-> [url |-> <<>>, header |-> <<>>]]
AliasStep(op, returned) == [op |-> op, returned |-> returned]

Hold(h, r, origin) == [x \in DOMAIN h \cup {r} |-> IF x = r THEN origin ELSE h[x]]
Remember(s, r, c) == [x \in DOMAIN s \cup {r} |-> IF x = r THEN c ELSE s[x]]

\* The caller builds its FormValues object: one per editor, assigned into
\* from then on.
CallerCreates(c) ==
  /\ heap = EmptyHeap
  /\ LET made == NewObject(heap, c)
     IN  /\ heap' = made.heap
         /\ held' = Hold(held, made.ref, "made")
  /\ aliasCall' = AliasStep("create", NoRef)
  /\ UNCHANGED <<refStore, storedAs>>

\* The caller assigns the url field of an object it holds.
CallerSetsUrl(r, url) ==
  /\ r \in DOMAIN held
  /\ heap[r].text # url
  /\ heap' = [heap EXCEPT ![r].text = url]
  /\ aliasCall' = AliasStep("mutate", r)
  /\ UNCHANGED <<held, refStore, storedAs>>

\* The caller assigns into the headers array of an object it holds.
CallerSetsHeader(r, header) ==
  /\ r \in DOMAIN held
  /\ heap[heap[r].child].text # header
  /\ heap' = [heap EXCEPT ![heap[r].child].text = header]
  /\ aliasCall' = AliasStep("mutate", r)
  /\ UNCHANGED <<held, refStore, storedAs>>

\* The state and history after storing a new entry for the object at r.
Seeded(requestId, r, op) ==
  LET made == createEntryRef(heap, r)
  IN  /\ heap' = made.heap
      /\ refStore' = Put(refStore, requestId, [entries |-> <<made.entry>>, index |-> 0])
      /\ storedAs' = Remember(storedAs, made.entry.snapshot, DeepValue(heap, r))
      /\ held' = [held EXCEPT ![r] = "passed"]
      /\ aliasCall' = AliasStep(op, NoRef)

\* useRunSettingsStore.ts:114-126 on references.
initRequestHistoryRef(requestId, r) ==
  /\ r \in DOMAIN held
  /\ SnapshotObjects(heap) < MaxSnapshotObjects
  /\ Seeded(requestId, r, "initRequestHistory")

\* useRunSettingsStore.ts:128-157 on references.
captureSnapshotRef(requestId, r) ==
  /\ r \in DOMAIN held
  /\ IF requestId \notin DOMAIN refStore
       THEN /\ SnapshotObjects(heap) < MaxSnapshotObjects
            /\ Seeded(requestId, r, "captureSnapshot")
       ELSE LET current == refStore[requestId]
                hash == ContentHash[DeepValue(heap, r)]
                active == current.entries[current.index + 1]
            IN  IF active.hash = hash
                  THEN /\ held' = [held EXCEPT ![r] = "passed"]
                       /\ aliasCall' = AliasStep("captureSnapshot", NoRef)
                       /\ UNCHANGED <<heap, refStore, storedAs>>
                  ELSE LET truncated == Slice(current.entries, 0, current.index + 1)
                           made == createEntryRef(heap, r)
                           appended == Append(truncated, made.entry)
                           capped == IF Len(appended) > MAX_REVISIONS_PER_REQUEST
                                       THEN Slice(appended,
                                                  Len(appended) - MAX_REVISIONS_PER_REQUEST,
                                                  Len(appended))
                                       ELSE appended
                       IN  /\ SnapshotObjects(heap) < MaxSnapshotObjects
                           /\ heap' = made.heap
                           /\ refStore' = Put(refStore, requestId,
                                              [entries |-> capped, index |-> Len(capped) - 1])
                           /\ storedAs' = Remember(storedAs, made.entry.snapshot,
                                                   DeepValue(heap, r))
                           /\ held' = [held EXCEPT ![r] = "passed"]
                           /\ aliasCall' = AliasStep("captureSnapshot", NoRef)

\* undo / redo on references: the move to nextIndex and the returned copy.
Stepped(requestId, nextIndex, op) ==
  LET current == refStore[requestId]
      entry == current.entries[nextIndex + 1]
      copy == structuredClone(heap, entry.snapshot)
  IN  /\ SnapshotObjects(heap) < MaxSnapshotObjects
      /\ refStore' = Put(refStore, requestId, [current EXCEPT !.index = nextIndex])
      /\ heap' = copy.heap
      /\ held' = Hold(held, copy.ref, "returned")
      /\ aliasCall' = AliasStep(op, copy.ref)
      /\ UNCHANGED storedAs

\* useRunSettingsStore.ts:169-181 on references.
undoRef(requestId) ==
  IF requestId \notin DOMAIN refStore \/ refStore[requestId].index <= 0
    THEN /\ aliasCall' = AliasStep("undo", NoRef)
         /\ UNCHANGED <<heap, held, refStore, storedAs>>
    ELSE Stepped(requestId, refStore[requestId].index - 1, "undo")

\* useRunSettingsStore.ts:183-195 on references.
redoRef(requestId) ==
  IF requestId \notin DOMAIN refStore
     \/ refStore[requestId].index >= Len(refStore[requestId].entries) - 1
    THEN /\ aliasCall' = AliasStep("redo", NoRef)
         /\ UNCHANGED <<heap, held, refStore, storedAs>>
    ELSE Stepped(requestId, refStore[requestId].index + 1, "redo")

(***************************************************************************)
(* Part 3: the variable resolution engine (lib/variables/engine.ts).       *)
(* Its functions are synchronous and pure; SpecTemplate applies them to    *)
(* every input and context of a bounded set.                               *)
(***************************************************************************)
\* A text is a sequence of characters; a JavaScript
\* value is a record of its type and, for a string, its text (for a number
\* the text String() gives, for a function its name).
MaxPieces == 3

Str(text) == [type |-> "string", text |-> text]
Num(text) == [type |-> "number", text |-> text]
Fn(name) == [type |-> "function", text |-> name]
NullValue == [type |-> "null", text |-> <<>>]
Undefined == [type |-> "undefined", text |-> <<>>]

\* [a-zA-Z0-9_.-] and the ASCII members of \s (engine.ts:21-22).
KeyChars ==
  {
    "a", "b", "c", "d", "e", "f", "g", "h", "i", "j", "k", "l", "m", "n",
    "o", "p", "q", "r", "s", "t", "u", "v", "w", "x", "y", "z", "A", "B",
    "C", "D", "E", "F", "G", "H", "I", "J", "K", "L", "M", "N", "O", "P",
    "Q", "R", "S", "T", "U", "V", "W", "X", "Y", "Z", "0", "1", "2", "3",
    "4", "5", "6", "7", "8", "9", "_", ".", "-" }
SpaceChars == {" ", "\t", "\n", "\r", "\f"}

KeyA == <<"a">>
KeyB == <<"b">>
KeyValueOf == <<"v", "a", "l", "u", "e", "O", "f">>

\* The properties every object literal inherits from Object.prototype, as far
\* as the inputs below name them: values[key] finds them when values has no
\* entry of its own for key.
ObjectPrototypeKeys == {KeyValueOf}

\* String(Object.prototype.valueOf)
NativeFunctionText(name) ==
  <<"f", "u", "n", "c", "t", "i", "o", "n", " ">> \o name
    \o <<"(", ")", " ", "{", " ", "[", "n", "a", "t", "i", "v", "e", " ",
         "c", "o", "d", "e", "]", " ", "}">>

\* String(value), for the values a replacer can return.
ToStringValue(v) == IF v.type = "function" THEN NativeFunctionText(v.text) ELSE v.text

\* engine.ts:43, :79: typeof input === 'string' ? input : input == null ? '' : String(input)
ToText(input) ==
  IF input.type = "string" THEN input.text
  ELSE IF input.type \in {"null", "undefined"} THEN <<>>
  ELSE ToStringValue(input)

\* obj[key] on an object literal: the own property, else the inherited one.
Lookup(obj, key) ==
  IF key \in DOMAIN obj THEN obj[key]
  ELSE IF key \in ObjectPrototypeKeys THEN Fn(key)
  ELSE Undefined

IsNullish(v) == v.type \in {"null", "undefined"}
Truthy(v) == ~IsNullish(v) /\ ~(v.type = "string" /\ v.text = <<>>)

Opener(syntax) == IF syntax = "double-curly" THEN <<"{", "{">> ELSE <<"$", "{">>
Closer(syntax) == IF syntax = "double-curly" THEN <<"}", "}">> ELSE <<"}">>

StartsWith(s, i, literal) ==
  /\ i + Len(literal) - 1 <= Len(s)
  /\ SubSeq(s, i, i + Len(literal) - 1) = literal

\* The end of the longest run of class characters starting at i (a greedy
\* `[class]*`): the first position at or after i that is not in the class.
SpanEnd(s, i, class) ==
  CHOOSE j \in i..(Len(s) + 1) :
    /\ \A k \in i..(j - 1) : s[k] \in class
    /\ j = Len(s) + 1 \/ s[j] \notin class

NoMatch == [found |-> FALSE, key |-> <<>>, end |-> 0]

\* One attempt of DOUBLE_CURLY_RE / DOLLAR_BRACE_RE at position i (1-based):
\* opener, \s*, ([a-zA-Z0-9_.-]+), \s*, closer.  The three classes and the
\* closer's first character are disjoint, so the greedy runs are the only
\* way to match and backtracking finds nothing more.
MatchAt(s, i, syntax) ==
  IF ~StartsWith(s, i, Opener(syntax)) THEN NoMatch
  ELSE LET keyFrom == SpanEnd(s, i + 2, SpaceChars)
           keyTo == SpanEnd(s, keyFrom, KeyChars)
           close == SpanEnd(s, keyTo, SpaceChars)
       IN  IF keyTo > keyFrom /\ StartsWith(s, close, Closer(syntax))
             THEN [found |-> TRUE,
                   key |-> SubSeq(s, keyFrom, keyTo - 1),
                   end |-> close + Len(Closer(syntax))]
             ELSE NoMatch

\* re.exec from lastIndex: the leftmost position at or after `from` where the
\* expression matches, 0 when there is none.
NextMatch(s, from, syntax) ==
  LET starts == {i \in from..Len(s) : MatchAt(s, i, syntax).found}
  IN  IF starts = {} THEN 0 ELSE CHOOSE i \in starts : \A j \in starts : i <= j

Token(raw, key, syntax, index) ==
  [raw |-> raw, key |-> key, syntax |-> syntax, index |-> index]

RECURSIVE pushMatches(_, _, _)
\* engine.ts:24-40: the tokens the loop pushes from lastIndex = from - 1 on
\* (index is 0-based).
pushMatches(s, from, syntax) ==
  LET i == NextMatch(s, from, syntax)
  IN  IF i = 0 THEN <<>>
      ELSE LET m == MatchAt(s, i, syntax)
           IN  <<Token(SubSeq(s, i, m.end - 1), m.key, syntax, i - 1)>>
                 \o pushMatches(s, m.end, syntax)

RECURSIVE InsertByIndex(_, _)
\* The place a stable ascending sort gives `token` in the sorted `sorted`.
InsertByIndex(sorted, token) ==
  IF sorted = <<>> THEN <<token>>
  ELSE IF token.index < Head(sorted).index THEN <<token>> \o sorted
  ELSE <<Head(sorted)>> \o InsertByIndex(Tail(sorted), token)

RECURSIVE SortByIndex(_)
\* tokens.sort((a, b) => a.index - b.index), a stable sort.
SortByIndex(tokens) ==
  IF tokens = <<>> THEN <<>>
  ELSE InsertByIndex(SortByIndex(SubSeq(tokens, 1, Len(tokens) - 1)), tokens[Len(tokens)])

\* extractVariableTokens without the final sort.
extractVariableTokensUnsorted(input) ==
  LET value == ToText(input)
  IN  IF value = <<>> THEN <<>>
      ELSE pushMatches(value, 1, "double-curly") \o pushMatches(value, 1, "dollar-brace")

\* engine.ts:42-49
extractVariableTokens(input) ==
  LET value == ToText(input)
  IN  IF value = <<>> THEN <<>>
      ELSE SortByIndex(pushMatches(value, 1, "double-curly")
                         \o pushMatches(value, 1, "dollar-brace"))

NoResolution == [key |-> <<>>, value |-> NullValue, source |-> NullValue]

\* engine.ts:51-62
resolveVariableToken(token, context) ==
  LET value == Lookup(context.values, token.key)
      source == Lookup(context.sourceByKey, token.key)
  IN  IF IsNullish(value) THEN NoResolution
      ELSE [key |-> token.key,
            value |-> value,
            source |-> IF Truthy(source) THEN source ELSE Str(<<"l", "o", "c", "a", "l">>)]

\* Set.prototype.add on a set kept in insertion order.
SetAdd(set, key) ==
  IF \E k \in DOMAIN set : set[k] = key THEN set ELSE Append(set, key)

RECURSIVE UnresolvedOf(_, _, _)
\* engine.ts:69-71: the forEach over the tokens.
UnresolvedOf(tokens, context, unresolved) ==
  IF tokens = <<>> THEN unresolved
  ELSE UnresolvedOf(Tail(tokens), context,
                    IF resolveVariableToken(Head(tokens), context) = NoResolution
                      THEN SetAdd(unresolved, Head(tokens).key)
                      ELSE unresolved)

\* engine.ts:64-73
findUnresolvedVariables(input, context) ==
  UnresolvedOf(extractVariableTokens(input), context, <<>>)

RECURSIVE ReplaceFrom(_, _, _, _, _)
\* String.prototype.replace(re, replacer) with the replacer of engine.ts:83-90,
\* from position `from` on: every match in the text s is replaced by what the
\* replacer returns for it; `unresolved` is the set the replacer adds to.
ReplaceFrom(s, from, syntax, context, unresolved) ==
  LET i == NextMatch(s, from, syntax)
  IN  IF i = 0
        THEN [output |-> SubSeq(s, from, Len(s)), unresolved |-> unresolved]
        ELSE LET m == MatchAt(s, i, syntax)
                 next == Lookup(context.values, m.key)
                 returned == IF IsNullish(next) THEN SubSeq(s, i, m.end - 1)
                                                ELSE ToStringValue(next)
                 rest == ReplaceFrom(s, m.end, syntax, context,
                                     IF IsNullish(next) THEN SetAdd(unresolved, m.key)
                                                        ELSE unresolved)
             IN  [output |-> SubSeq(s, from, i - 1) \o returned \o rest.output,
                  unresolved |-> rest.unresolved]

\* engine.ts:75-94
resolveTemplateText(input, context) ==
  LET value == ToText(input)
  IN  IF value = <<>> THEN [output |-> <<>>, unresolved |-> <<>>]
      ELSE LET first == ReplaceFrom(value, 1, "double-curly", context, <<>>)
           IN  ReplaceFrom(first.output, 1, "dollar-brace", context, first.unresolved)

\* The inputs: null, undefined, a number, and every text made of at most
\* MaxPieces of these pieces.
Pieces ==
  { <<"{", "{", "a", "}", "}">>,
    <<"$", "{", "b", "}">>,
    <<"$", "{", " ", "a", " ", "}">>,
    <<"{", "{">> \o KeyValueOf \o <<"}", "}">>,
    <<"$", "{">>,
    <<"}">>,
    <<" ", "b">> }

RECURSIVE Concat(_)
Concat(pieces) == IF pieces = <<>> THEN <<>> ELSE Head(pieces) \o Concat(Tail(pieces))

TemplateTexts == {Concat(ps) : ps \in UNION {[1..n -> Pieces] : n \in 0..MaxPieces}}
TemplateInputs == {NullValue, Undefined, Num(<<"7">>)} \cup {Str(text) : text \in TemplateTexts}

\* The contexts: values as buildEnvironmentVariableContext builds it (an object
\* literal, engine.ts:99-105), with or without entries for "a" and "b"; a null
\* entry is what a caller's own Record can still hold at run time.
ValuesOfA == {Undefined, NullValue, Str(<<>>), Str(<<"1">>), Str(<<"$", "{", "b", "}">>)}
ValuesOfB == {Undefined, Str(<<"2">>)}

Environment == Str(<<"e", "n", "v", "i", "r", "o", "n", "m", "e", "n", "t">>)

ContextOf(a, b) ==
  LET keys == {k \in {KeyA, KeyB} : (IF k = KeyA THEN a ELSE b) # Undefined}
  IN  [values |-> [k \in keys |-> IF k = KeyA THEN a ELSE b],
       sourceByKey |-> [k \in keys |-> Environment]]

TemplateContexts == {ContextOf(a, b) : a \in ValuesOfA, b \in ValuesOfB}

NoRendered == [output |-> <<>>, unresolved |-> <<>>]

\* The four functions applied, one after the other, to one input and context.
ExtractTokens ==
  /\ tpc = "input"
  /\ tTokens' = extractVariableTokens(tInput)
  /\ tpc' = "extracted"
  /\ UNCHANGED <<tInput, tContext, tResolutions, tUnresolved, tRendered>>

ResolveTokens ==
  /\ tpc = "extracted"
  /\ tResolutions' = [k \in DOMAIN tTokens |-> resolveVariableToken(tTokens[k], tContext)]
  /\ tpc' = "resolved"
  /\ UNCHANGED <<tInput, tContext, tTokens, tUnresolved, tRendered>>

FindUnresolved ==
  /\ tpc = "resolved"
  /\ tUnresolved' = findUnresolvedVariables(tInput, tContext)
  /\ tpc' = "found"
  /\ UNCHANGED <<tInput, tContext, tTokens, tResolutions, tRendered>>

RenderTemplate ==
  /\ tpc = "found"
  /\ tRendered' = resolveTemplateText(tInput, tContext)
  /\ tpc' = "rendered"
  /\ UNCHANGED <<tInput, tContext, tTokens, tResolutions, tUnresolved>>

(***************************************************************************)
(* Part 4: the workspace lock store, useWorkspaceLockStore.  setUnlocked   *)
(* is asynchronous: it is suspended at its await of the backend call, and  *)
(* other store calls may run meanwhile.  The backend is not part of the    *)
(* program: its response is any status, or a failure.                      *)
(***************************************************************************)
\* part_003:16-21: the store as created.
LockCreated ==
  [isLocked |-> FALSE, legacyMode |-> FALSE, hasVault |-> TRUE,
   hasCiphertext |-> FALSE, modalOpen |-> TRUE]

\* An optional boolean argument: <<>> when not passed, <<b>> when passed.
OptionalBooleans == {<<>>, <<TRUE>>, <<FALSE>>}
\* v ?? d
Coalesce(v, d) == IF v = <<>> THEN d ELSE v[1]
\* !!v
ToBoolean(v) == v # <<>> /\ v[1]

\* The passphrases typed: empty, blank, and a word without and with
\* surrounding blanks.
Passphrases == {<<>>, <<" ", " ">>, <<"p", "w">>, <<" ", "p", "w", " ">>}

RECURSIVE TrimStart(_)
TrimStart(s) ==
  IF Len(s) = 0 THEN s
  ELSE IF s[1] \in SpaceChars THEN TrimStart(Tail(s)) ELSE s

RECURSIVE TrimEnd(_)
TrimEnd(s) ==
  IF Len(s) = 0 THEN s
  ELSE IF s[Len(s)] \in SpaceChars THEN TrimEnd(SubSeq(s, 1, Len(s) - 1)) ELSE s

\* String.prototype.trim
trim(s) == TrimEnd(TrimStart(s))

\* res.status of the backend's unlock response (part_010:204-211).
UnlockStatuses == {"unlocked", "failed"}

NoUnlock == [pc |-> "idle", passphrase |-> <<>>, sent |-> <<>>, status |-> "none"]
NoLockCall == [op |-> "none", returned |-> <<>>]

LockCalled(op, returned) ==
  /\ lockCall' = [op |-> op, returned |-> returned]
  /\ lockBefore' = lock

\* part_003:22-29
setStatus(locked, legacy, hasVault, ciphertext) ==
  /\ lock' = [isLocked |-> locked \/ ToBoolean(ciphertext),
              legacyMode |-> legacy,
              hasVault |-> Coalesce(hasVault, lock.hasVault),
              hasCiphertext |-> Coalesce(ciphertext, lock.hasCiphertext),
              modalOpen |-> \/ lock.modalOpen
                            \/ locked
                            \/ legacy
                            \/ ToBoolean(ciphertext)
                            \/ ~Coalesce(hasVault, lock.hasVault)]
  /\ LockCalled("setStatus", <<>>)
  /\ UNCHANGED unlock

\* part_003:30
openModal ==
  /\ lock' = [lock EXCEPT !.modalOpen = TRUE]
  /\ LockCalled("openModal", <<>>)
  /\ UNCHANGED unlock

\* part_003:31
closeModal ==
  /\ lock' = [lock EXCEPT !.modalOpen = FALSE]
  /\ LockCalled("closeModal", <<>>)
  /\ UNCHANGED unlock

\* part_003:32-34: setUnlocked(passphrase) up to its await: a blank
\* passphrase returns false at once; otherwise the trimmed passphrase is sent.
setUnlocked(passphrase) ==
  /\ unlock.pc # "awaiting"
  /\ IF trim(passphrase) = <<>>
       THEN /\ unlock' = [pc |-> "returned", passphrase |-> passphrase,
                          sent |-> <<>>, status |-> "none"]
            /\ LockCalled("setUnlocked", <<FALSE>>)
       ELSE /\ unlock' = [pc |-> "awaiting", passphrase |-> passphrase,
                          sent |-> <<trim(passphrase)>>, status |-> "none"]
            /\ UNCHANGED <<lockCall, lockBefore>>
  /\ UNCHANGED lock

\* part_003:34-36: the backend responded with `status`: the store is set
\* unlocked and res.status === 'unlocked' is returned.
UnlockResponds(status) ==
  /\ unlock.pc = "awaiting"
  /\ lock' = [isLocked |-> FALSE, legacyMode |-> FALSE, hasVault |-> TRUE,
              hasCiphertext |-> FALSE, modalOpen |-> FALSE]
  /\ unlock' = [unlock EXCEPT !.pc = "returned", !.status = status]
  /\ LockCalled("setUnlocked", <<status = "unlocked">>)

\* part_003:34: the backend call failed: the await throws and setUnlocked
\* rejects.
UnlockFails ==
  /\ unlock.pc = "awaiting"
  /\ unlock' = [unlock EXCEPT !.pc = "rejected"]
  /\ LockCalled("setUnlocked", <<>>)
  /\ UNCHANGED lock

\* -------------------------------------------------------- specifications
vars == <<bulkVars, revVars, aliasVars, templateVars, trip, lockVars>>

\* The store as created (useRunSettingsStore.ts:112).
RevIdle ==
  /\ byRequest = EmptyStore
  /\ lastCall = NoCall
  /\ before = EmptyStore

\* No bulk run: executeBulkRun has not been called.
BulkIdle ==
  /\ items = <<>>
  /\ concurrency = 1
  /\ phase = "idle"
  /\ cursor = 0
  /\ runners = <<>>
  /\ results = <<>>
  /\ reportItems = <<>>
  /\ report = NoReport
  /\ pendingErrorHooks = {}
  /\ events = <<>>
  /\ invoked = <<>>
  /\ execOutcome = <<>>
  /\ workerOutcome = <<>>

\* No heap object made yet.
AliasIdle ==
  /\ heap = EmptyHeap
  /\ held = NoHeld
  /\ refStore = EmptyStore
  /\ storedAs = NoStoredAs
  /\ aliasCall = AliasStep("none", NoRef)

\* The variable engine not called.
TemplateIdle ==
  /\ tpc = "idle"
  /\ tInput = Undefined
  /\ tContext = ContextOf(Undefined, Undefined)
  /\ tTokens = <<>>
  /\ tResolutions = <<>>
  /\ tUnresolved = <<>>
  /\ tRendered = NoRendered

\* No undo or redo made.
TripIdle == trip = NoTrip

\* The lock store as created, setUnlocked not called.
LockIdle ==
  /\ lock = LockCreated
  /\ unlock = NoUnlock
  /\ lockCall = NoLockCall
  /\ lockBefore = LockCreated

Runners == 1..(MaxItems + 1)

\* One bulk run, from the call of executeBulkRun on.
Init == BulkInit /\ RevIdle /\ AliasIdle /\ TemplateIdle /\ TripIdle /\ LockIdle

Next ==
  \/ Launch /\ UNCHANGED <<revVars, aliasVars, templateVars, trip, lockVars>>
  \/ \E r \in Runners : AfterOnItemStart(r) /\ UNCHANGED <<revVars, aliasVars, templateVars, trip, lockVars>>
  \/ \E r \in Runners : AfterExecute(r) /\ UNCHANGED <<revVars, aliasVars, templateVars, trip, lockVars>>
  \/ \E r \in Runners : AfterOnItemDone(r) /\ UNCHANGED <<revVars, aliasVars, templateVars, trip, lockVars>>
  \/ \E r \in Runners : RunnerResumes(r) /\ UNCHANGED <<revVars, aliasVars, templateVars, trip, lockVars>>
  \/ ThenCallback /\ UNCHANGED <<revVars, aliasVars, templateVars, trip, lockVars>>
  \/ Return /\ UNCHANGED <<revVars, aliasVars, templateVars, trip, lockVars>>
  \/ \E i \in 0..(MaxItems - 1) : OnItemErrorCompletes(i) /\ UNCHANGED <<revVars, aliasVars, templateVars, trip, lockVars>>

Spec == Init /\ [][Next]_vars

\* The same run under the scheduling the runtime gives: every awaited hook
\* and execute call settles, and a continuation that can run is run.
BulkStep(A) == A /\ UNCHANGED <<revVars, aliasVars, templateVars, trip, lockVars>>

BulkFairness ==
  /\ \A r \in Runners : WF_vars(BulkStep(AfterOnItemStart(r)))
  /\ \A r \in Runners : WF_vars(BulkStep(AfterExecute(r)))
  /\ \A r \in Runners : WF_vars(BulkStep(AfterOnItemDone(r)))
  /\ \A r \in Runners : WF_vars(BulkStep(RunnerResumes(r)))
  /\ WF_vars(BulkStep(ThenCallback))

\* runWithConcurrency never reads an item: the ids stay the plain ones.
InitLive == Init /\ items \in {ItemsOf(n) : n \in ItemCounts}

SpecLive == InitLive /\ [][Next]_vars /\ BulkFairness

\* A pool of at least two runners over one item more than MaxItems, called
\* without hooks (bulkRun.ts:36: hooks = {}) on items whose execute answers
\* 201 or throws.  What is awaited for item 0 may never settle; what is
\* awaited for any other item settles, and a continuation that can run is
\* run.
InitPool ==
  /\ items = ItemsOf(MaxItems + 1)
  /\ concurrency \in 2..MaxItems
  /\ phase = "idle"
  /\ cursor = 0
  /\ runners = <<>>
  /\ results = [i \in Indices |-> Unset]
  /\ reportItems = <<>>
  /\ report = NoReport
  /\ pendingErrorHooks = {}
  /\ events = [i \in Indices |-> <<>>]
  /\ invoked = [i \in Indices |-> 0]
  /\ execOutcome = [i \in Indices |-> NotRun]
  /\ workerOutcome = [i \in Indices |-> Unset]
  /\ RevIdle /\ AliasIdle /\ TemplateIdle /\ TripIdle /\ LockIdle

\* A step of that run: no hook is there to fail, and execute answers 201 or
\* throws.
PoolStep(A) ==
  /\ BulkStep(A)
  /\ \A i \in Indices :
       /\ workerOutcome'[i].reason \notin {"onItemStartError", "onItemDoneError"}
       /\ execOutcome'[i] \in {NotRun, Threw, [status_code |-> 201, error |-> NoError]}

NextPool ==
  \/ PoolStep(Launch)
  \/ \E r \in Runners : PoolStep(AfterOnItemStart(r))
  \/ \E r \in Runners : PoolStep(AfterExecute(r))
  \/ \E r \in Runners : PoolStep(AfterOnItemDone(r))
  \/ \E r \in Runners : PoolStep(RunnerResumes(r))
  \/ PoolStep(ThenCallback)
  \/ PoolStep(Return)
  \/ \E i \in 0..MaxItems : PoolStep(OnItemErrorCompletes(i))

\* The runner r is not the one holding item 0.
NotOnFirst(r) == r \in DOMAIN runners /\ runners[r].idx # 0

PoolFairness ==
  /\ \A r \in Runners : WF_vars(NotOnFirst(r) /\ PoolStep(AfterOnItemStart(r)))
  /\ \A r \in Runners : WF_vars(NotOnFirst(r) /\ PoolStep(AfterExecute(r)))
  /\ \A r \in Runners : WF_vars(NotOnFirst(r) /\ PoolStep(AfterOnItemDone(r)))
  /\ \A r \in Runners : WF_vars(PoolStep(RunnerResumes(r)))

SpecPool == InitPool /\ [][NextPool]_vars /\ PoolFairness


\* The store alone: any sequence of calls on the two requests.
InitRevision == BulkIdle /\ RevIdle /\ AliasIdle /\ TemplateIdle /\ TripIdle /\ LockIdle

NextRevision ==
  \/ \E id \in RequestIds : \E s \in SnapshotsFor(id) :
       initRequestHistory(id, s) /\ UNCHANGED <<bulkVars, aliasVars, templateVars, trip, lockVars>>
  \/ \E id \in RequestIds : \E s \in SnapshotsFor(id) :
       captureSnapshot(id, s) /\ UNCHANGED <<bulkVars, aliasVars, templateVars, trip, lockVars>>
  \/ \E id \in RequestIds : undo(id) /\ UNCHANGED <<bulkVars, aliasVars, templateVars, trip, lockVars>>
  \/ \E id \in RequestIds : redo(id) /\ UNCHANGED <<bulkVars, aliasVars, templateVars, trip, lockVars>>
  \/ \E id \in RequestIds : clearRequestHistory(id) /\ UNCHANGED <<bulkVars, aliasVars, templateVars, trip, lockVars>>

SpecRevision == InitRevision /\ [][NextRevision]_vars

\* The store and its caller on one heap.
HeapRefs == 1..(2 * (MaxSnapshotObjects + 1))

InitAlias == BulkIdle /\ RevIdle /\ AliasIdle /\ TemplateIdle /\ TripIdle /\ LockIdle

NextAlias ==
  \/ \E c \in Contents : CallerCreates(c) /\ UNCHANGED <<bulkVars, revVars, templateVars, trip, lockVars>>
  \/ \E r \in HeapRefs : \E url \in UrlTexts :
       CallerSetsUrl(r, url) /\ UNCHANGED <<bulkVars, revVars, templateVars, trip, lockVars>>
  \/ \E r \in HeapRefs : \E header \in HeaderTexts :
       CallerSetsHeader(r, header) /\ UNCHANGED <<bulkVars, revVars, templateVars, trip, lockVars>>
  \/ \E id \in AliasIds : \E r \in HeapRefs :
       initRequestHistoryRef(id, r) /\ UNCHANGED <<bulkVars, revVars, templateVars, trip, lockVars>>
  \/ \E id \in AliasIds : \E r \in HeapRefs :
       captureSnapshotRef(id, r) /\ UNCHANGED <<bulkVars, revVars, templateVars, trip, lockVars>>
  \/ \E id \in AliasIds : undoRef(id) /\ UNCHANGED <<bulkVars, revVars, templateVars, trip, lockVars>>
  \/ \E id \in AliasIds : redoRef(id) /\ UNCHANGED <<bulkVars, revVars, templateVars, trip, lockVars>>

SpecAlias == InitAlias /\ [][NextAlias]_vars

\* The variable engine on one input and one context.
InitTemplate ==
  /\ BulkIdle /\ RevIdle /\ AliasIdle /\ TripIdle /\ LockIdle
  /\ tpc = "input"
  /\ tInput \in TemplateInputs
  /\ tContext \in TemplateContexts
  /\ tTokens = <<>>
  /\ tResolutions = <<>>
  /\ tUnresolved = <<>>
  /\ tRendered = NoRendered

NextTemplate ==
  \/ ExtractTokens /\ UNCHANGED <<bulkVars, revVars, aliasVars, trip, lockVars>>
  \/ ResolveTokens /\ UNCHANGED <<bulkVars, revVars, aliasVars, trip, lockVars>>
  \/ FindUnresolved /\ UNCHANGED <<bulkVars, revVars, aliasVars, trip, lockVars>>
  \/ RenderTemplate /\ UNCHANGED <<bulkVars, revVars, aliasVars, trip, lockVars>>

SpecTemplate == InitTemplate /\ [][NextTemplate]_vars

\* The store on the long request alone, with the runs of undo and redo
\* recorded.
Tracked(A) ==
  /\ A
  /\ trip' = TripAfter(trip, byRequest, lastCall')
  /\ UNCHANGED <<bulkVars, aliasVars, templateVars, lockVars>>

NextRoundTrip ==
  \/ \E s \in SnapshotsFor("r2") : Tracked(initRequestHistory("r2", s))
  \/ \E s \in SnapshotsFor("r2") : Tracked(captureSnapshot("r2", s))
  \/ Tracked(undo("r2"))
  \/ Tracked(redo("r2"))
  \/ Tracked(clearRequestHistory("r2"))

SpecRoundTrip == InitRevision /\ [][NextRoundTrip]_vars

\* The store on the short request, edited with every snapshot.
NextHash ==
  \/ \E s \in Snapshots :
       initRequestHistory("r1", s) /\ UNCHANGED <<bulkVars, aliasVars, templateVars, trip, lockVars>>
  \/ \E s \in Snapshots :
       captureSnapshot("r1", s) /\ UNCHANGED <<bulkVars, aliasVars, templateVars, trip, lockVars>>
  \/ undo("r1") /\ UNCHANGED <<bulkVars, aliasVars, templateVars, trip, lockVars>>

SpecHash == InitRevision /\ [][NextHash]_vars

\* The lock store: any sequence of calls, one setUnlocked at a time.
NextLock ==
  \/ \E locked, legacy \in BOOLEAN : \E hasVault, ciphertext \in OptionalBooleans :
       setStatus(locked, legacy, hasVault, ciphertext)
       /\ UNCHANGED <<bulkVars, revVars, aliasVars, templateVars, trip>>
  \/ openModal /\ UNCHANGED <<bulkVars, revVars, aliasVars, templateVars, trip>>
  \/ closeModal /\ UNCHANGED <<bulkVars, revVars, aliasVars, templateVars, trip>>
  \/ \E passphrase \in Passphrases :
       setUnlocked(passphrase) /\ UNCHANGED <<bulkVars, revVars, aliasVars, templateVars, trip>>
  \/ \E status \in UnlockStatuses :
       UnlockResponds(status) /\ UNCHANGED <<bulkVars, revVars, aliasVars, templateVars, trip>>
  \/ UnlockFails /\ UNCHANGED <<bulkVars, revVars, aliasVars, templateVars, trip>>

SpecLock == InitRevision /\ [][NextLock]_vars

\* ---------------------------------------------------------------- claims
\* runWithConcurrency has resolved (its caller's then-callback has run).
Resolved == phase \in {"collected", "returned", "rejected"}

\* The clamp of the concurrency argument, written out.
Clamped == IF concurrency < 1 THEN 1 ELSE IF concurrency > N THEN N ELSE concurrency

\* C1: whatever the order in which workers complete, runWithConcurrency
\* resolves with exactly N settlements and entry i is the outcome (fulfilled
\* value or rejected reason) of worker(items[i], i); before that, a slot is
\* either unwritten or already holds that outcome.
C1_ResultsInInputOrder ==
  /\ DOMAIN results = 0..(N - 1)
  /\ \A i \in Indices : results[i] \in {Unset, workerOutcome[i]}
  /\ Resolved =>
       \A i \in Indices : /\ results[i].status \in {"fulfilled", "rejected"}
                          /\ results[i].of = i
                          /\ results[i] = workerOutcome[i]

\* Item 1 completed before item 0 (its row was pushed first), both fulfilled.
C1_Witness ==
  /\ phase = "returned"
  /\ N = 2
  /\ Len(reportItems) = 2
  /\ reportItems[1].requestId = RequestIdOf(1)
  /\ reportItems[2].requestId = RequestIdOf(0)
  /\ results[0].status = "fulfilled"
  /\ results[1].status = "fulfilled"

\* C2: a worker that throws or rejects for item i gives a rejected settlement
\* at index i only: no runner stops because of it (a runner returns only on
\* an index past the end), every other item is still invoked, and every other
\* item's settlement is its own outcome.
C2_RejectionIsolated ==
  /\ \A r \in DOMAIN runners : runners[r].pc = "returned" => runners[r].idx >= N
  /\ \A i \in Indices :
       workerOutcome[i].status = "rejected" =>
         /\ results[i] \in {Unset, Rejected(i, workerOutcome[i].reason)}
         /\ \A j \in Indices \ {i} : results[j] \in {Unset, workerOutcome[j]}
         /\ Resolved =>
              /\ results[i] = Rejected(i, workerOutcome[i].reason)
              /\ \A j \in Indices \ {i} :
                   /\ invoked[j] = 1
                   /\ workerOutcome[j].status # "unset"
                   /\ results[j] = workerOutcome[j]

\* One runner: item 0 threw in execute, item 1 was claimed afterwards and
\* fulfilled.
C2_Witness ==
  /\ phase = "returned"
  /\ N = 2
  /\ Len(runners) = 1
  /\ execOutcome[0] = Threw
  /\ results[0].status = "rejected"
  /\ results[1].status = "fulfilled"

\* C3: with N >= 1 items the number of worker invocations started and not
\* yet settled never exceeds max(1, min(concurrency, N)), and exactly that
\* many runners are started: one for a concurrency of 0 or less, N for a
\* concurrency above N.
C3_InFlightWithinLimit ==
  (N >= 1 /\ phase # "idle") =>
    /\ InFlight(runners) <= Clamped
    /\ Len(runners) = Clamped
    /\ concurrency <= 0 => InFlight(runners) <= 1
    /\ concurrency > N => Len(runners) = N

\* Two items at concurrency 1: item 0 is in flight while item 1 waits.
C3_Witness ==
  /\ phase = "running"
  /\ N = 2
  /\ concurrency = 1
  /\ InFlight(runners) = 1
  /\ cursor = 1
  /\ invoked[1] = 0

\* C4: every index 0..N-1 is claimed by exactly one runner: no two runners
\* hold the same index, the worker is never invoked twice for an item, no
\* index is passed over, and at the end every item has been invoked once.
C4_EachIndexClaimedOnce ==
  /\ \A i \in Indices : invoked[i] <= 1
  /\ \A r1, r2 \in DOMAIN runners :
       (r1 # r2 /\ phase # "idle") => runners[r1].idx # runners[r2].idx
  /\ \A i, j \in Indices : (j < i /\ invoked[i] = 1) => invoked[j] = 1
  /\ \A i \in Indices : invoked[i] = 1 <=> i < cursor
  /\ Resolved => \A i \in Indices : invoked[i] = 1

\* Two runners shared the cursor over two items and both have returned.
C4_Witness ==
  /\ phase = "returned"
  /\ N = 2
  /\ Len(runners) = 2
  /\ cursor = 4
  /\ \A i \in Indices : invoked[i] = 1

\* The rows the report holds for item i: under its id, or under its id as
\* the settlement loop writes it.
RowsOf(i) ==
  {k \in DOMAIN report.items :
     report.items[k].requestId \in {items[i + 1].requestId, ErrorRequestId(items, i)}}

HookFailed(i) == workerOutcome[i].reason \in {"onItemStartError", "onItemDoneError"}

\* C5: in the report an item is 'failed' if and only if its execute threw or
\* its result has status_code >= 400, status_code == 0 or an error; otherwise
\* 'passed'.  Stated for the items none of whose hooks failed.
C5_FailedIffExecuteFailed ==
  phase = "returned" =>
    \A i \in Indices :
      ~HookFailed(i) =>
        \A k \in RowsOf(i) :
          report.items[k].status =
            IF \/ execOutcome[i] = Threw
               \/ execOutcome[i].status_code >= 400
               \/ execOutcome[i].status_code = 0
               \/ execOutcome[i].error # NoError
            THEN "failed" ELSE "passed"

\* The calls made for one item, in order, as the hook contract allows them.
AllowedEvents ==
  { <<>>,
    <<"onItemStart">>,
    <<"onItemStart", "onItemError">>,
    <<"onItemStart", "execute">>,
    <<"onItemStart", "execute", "onItemDone">>,
    <<"onItemStart", "execute", "onItemError">> }

\* C6: for every item the hooks are invoked as onItemStart, then the item's
\* execute, then exactly one of onItemDone or onItemError, never both,
\* whatever the hooks themselves do.
C6_HookOrderPerItem ==
  /\ \A i \in Indices : events[i] \in AllowedEvents
  /\ phase = "returned" =>
       \A i \in Indices : events[i] \in AllowedEvents \ {<<>>, <<"onItemStart">>,
                                                          <<"onItemStart", "execute">>}

\* What the execute outcome alone makes of an item, by bulkRun.ts:47 and :65.
StatusByExecute(out) ==
  IF out = Threw \/ IsFailed(out) THEN "failed" ELSE "passed"

\* C7: a hook that throws or rejects does not affect the run: every item's
\* execute is invoked, each reported status is the one its execute outcome
\* alone determines, and executeBulkRun returns a report, never rejects.
C7_HookFailuresIgnored ==
  /\ phase # "rejected"
  /\ phase = "returned" =>
       \A i \in Indices :
         /\ execOutcome[i] # NotRun
         /\ RowsOf(i) # {}
         /\ \A k \in RowsOf(i) : report.items[k].status = StatusByExecute(execOutcome[i])

\* The last call was captureSnapshot(id, s) on a request that had a state.
CapturedOver(id, s) ==
  /\ lastCall.op = "captureSnapshot"
  /\ lastCall.requestId = id
  /\ lastCall.snapshot = <<s>>
  /\ id \in DOMAIN before

ActiveOf(state) == state.entries[state.index + 1]

\* C8: after any sequence of initRequestHistory, captureSnapshot, undo, redo
\* and clearRequestHistory calls, every request that has a Revision State has
\* a non-empty entries list and 0 <= index < entries.length.
C8_IndexWithinEntries ==
  \A id \in DOMAIN byRequest :
    /\ Len(byRequest[id].entries) >= 1
    /\ 0 <= byRequest[id].index
    /\ byRequest[id].index < Len(byRequest[id].entries)

\* A capture on "r2" has just filled its history to the cap, with "r1" undone
\* to its first entry.
C8_Witness ==
  /\ lastCall.op = "captureSnapshot"
  /\ "r2" \in DOMAIN byRequest
  /\ Len(byRequest["r2"].entries) = MAX_REVISIONS_PER_REQUEST
  /\ byRequest["r2"].index = MAX_REVISIONS_PER_REQUEST - 1
  /\ "r1" \in DOMAIN byRequest
  /\ byRequest["r1"].index = 0
  /\ Len(byRequest["r1"].entries) = 2

\* C9: captureSnapshot(id, s) on an existing state whose entry at index has
\* the hash of s changes nothing (entries and index, and the whole store,
\* are as before); and after every capture of s the entry at index has the
\* hash of s, so that capturing s again, any number of times, is such a
\* no-op.
C9_SameHashCaptureIsNoOp ==
  \A id \in RequestIds : \A s \in Snapshots :
    /\ (CapturedOver(id, s) /\ ActiveOf(before[id]).hash = SnapshotHash[s]) =>
         byRequest = before
    /\ (lastCall.op = "captureSnapshot" /\ lastCall.requestId = id /\ lastCall.snapshot = <<s>>) =>
         /\ id \in DOMAIN byRequest
         /\ ActiveOf(byRequest[id]).hash = SnapshotHash[s]

\* "A2" was captured over the equal-hash entry "A", which stayed in place.
C9_Witness ==
  /\ CapturedOver("r1", "A2")
  /\ ActiveOf(before["r1"]).snapshot = "A"
  /\ ActiveOf(before["r1"]).hash = SnapshotHash["A2"]
  /\ ActiveOf(byRequest["r1"]).snapshot = "A"
  /\ Len(byRequest["r1"].entries) = 2

\* C10 as stated: a captureSnapshot(id, s) whose hash differs from the current
\* entry's replaces entries by old entries[0..index] followed by a new entry
\* for s and sets index to the last position, so that canRedo(id) is false.
C10_AsStated ==
  \A id \in RequestIds : \A s \in Snapshots :
    (CapturedOver(id, s) /\ ActiveOf(before[id]).hash # SnapshotHash[s]) =>
      /\ byRequest[id].entries =
           SubSeq(before[id].entries, 1, before[id].index + 1)
             \o <<[snapshot |-> s, hash |-> SnapshotHash[s]]>>
      /\ byRequest[id].index = Len(byRequest[id].entries) - 1
      /\ ~canRedo(byRequest, id)

\* C10, amended: such a capture replaces entries by the last 30 elements of
\* (old entries[0..index] followed by a new entry for s), all of them when
\* they are at most 30, and sets index to the last position: every entry
\* after the old index is discarded, canRedo(id) is false and a redo(id)
\* called in a state where canRedo(id) is false returns nothing and changes
\* nothing.
C10_CaptureDiscardsRedoBranch ==
  \A id \in RequestIds :
    /\ \A s \in Snapshots :
         (CapturedOver(id, s) /\ ActiveOf(before[id]).hash # SnapshotHash[s]) =>
           LET kept == SubSeq(before[id].entries, 1, before[id].index + 1)
                         \o <<[snapshot |-> s, hash |-> SnapshotHash[s]]>>
               drop == IF Len(kept) > 30 THEN Len(kept) - 30 ELSE 0
           IN  /\ byRequest[id].entries = SubSeq(kept, drop + 1, Len(kept))
               /\ byRequest[id].index = Len(byRequest[id].entries) - 1
               /\ ~canRedo(byRequest, id)
    /\ (lastCall.op = "redo" /\ lastCall.requestId = id /\ ~canRedo(before, id)) =>
         /\ lastCall.returned = <<>>
         /\ byRequest = before

\* "r2" was undone twice and then captured a snapshot of another hash: the
\* two entries of the redo branch are gone.
C10_Witness ==
  /\ CapturedOver("r2", "B")
  /\ before["r2"].index = Len(before["r2"].entries) - 3
  /\ ActiveOf(before["r2"]).hash # SnapshotHash["B"]
  /\ Len(byRequest["r2"].entries) = Len(before["r2"].entries) - 1
  /\ ActiveOf(byRequest["r2"]).snapshot = "B"

\* The last call was op(id, ...).
LastCallWas(op, id) == lastCall.op = op /\ lastCall.requestId = id

\* The entry createEntry makes of s.
EntryOf(s) == [snapshot |-> s, hash |-> SnapshotHash[s]]

\* C11: a Revision State never holds more than 30 entries; a capture that
\* would make 31 (30 entries, index at the last, another hash) drops from the
\* front only: the retained entries are the former entries 2..30, in their
\* order, followed by the new entry, and index points at that last entry.
C11_CapDropsFromFront ==
  /\ \A id \in DOMAIN byRequest : Len(byRequest[id].entries) <= 30
  /\ \A id \in RequestIds : \A s \in Snapshots :
       (/\ CapturedOver(id, s)
        /\ ActiveOf(before[id]).hash # SnapshotHash[s]
        /\ before[id].index + 2 > 30) =>
         /\ Len(byRequest[id].entries) = 30
         /\ \A k \in 1..29 : byRequest[id].entries[k] = before[id].entries[k + 1]
         /\ byRequest[id].entries[30] = EntryOf(s)
         /\ byRequest[id].index = 29

\* "r2" held 30 entries with index 29 and captured "A": its former second
\* entry is now the first and "A" is the thirtieth.
C11_Witness ==
  /\ CapturedOver("r2", "A")
  /\ Len(before["r2"].entries) = 30
  /\ before["r2"].index = 29
  /\ ActiveOf(before["r2"]).snapshot = "B"
  /\ Len(byRequest["r2"].entries) = 30
  /\ byRequest["r2"].entries[1] = before["r2"].entries[2]
  /\ byRequest["r2"].entries[1] # before["r2"].entries[1]
  /\ byRequest["r2"].entries[30].snapshot = "A"

\* C12: undo(id) with index > 0 decrements index by exactly one and returns
\* the snapshot stored at the new index; redo(id) with index below
\* entries.length - 1 increments index by exactly one and returns the snapshot
\* stored at the new index; neither changes the entries.
C12_UndoRedoStepByOne ==
  \A id \in RequestIds :
    /\ (LastCallWas("undo", id) /\ id \in DOMAIN before /\ before[id].index > 0) =>
         /\ id \in DOMAIN byRequest
         /\ byRequest[id].index = before[id].index - 1
         /\ byRequest[id].entries = before[id].entries
         /\ lastCall.returned = <<before[id].entries[before[id].index].snapshot>>
    /\ (/\ LastCallWas("redo", id)
        /\ id \in DOMAIN before
        /\ before[id].index < Len(before[id].entries) - 1) =>
         /\ id \in DOMAIN byRequest
         /\ byRequest[id].index = before[id].index + 1
         /\ byRequest[id].entries = before[id].entries
         /\ lastCall.returned = <<before[id].entries[before[id].index + 2].snapshot>>

\* "r2" was two steps below its newest entry and redo returned the entry one
\* step up.
C12_Witness ==
  /\ LastCallWas("redo", "r2")
  /\ "r2" \in DOMAIN before
  /\ Len(before["r2"].entries) >= 3
  /\ before["r2"].index = Len(before["r2"].entries) - 3
  /\ byRequest["r2"].index = Len(byRequest["r2"].entries) - 2
  /\ lastCall.returned = <<ActiveOf(byRequest["r2"]).snapshot>>
  /\ lastCall.returned # <<ActiveOf(before["r2"]).snapshot>>

\* C13: undo(id) returns nothing exactly when canUndo(id) is false, that is
\* when id has no state or index is 0, and redo(id) returns nothing exactly
\* when canRedo(id) is false, that is when id has no state or index is
\* entries.length - 1; a call that returns nothing leaves the whole store as
\* it was, with no state created for id.
C13_NothingIffCannot ==
  \A id \in RequestIds :
    /\ canUndo(before, id) <=> (id \in DOMAIN before /\ before[id].index # 0)
    /\ canRedo(before, id) <=>
         (id \in DOMAIN before /\ before[id].index # Len(before[id].entries) - 1)
    /\ LastCallWas("undo", id) =>
         /\ lastCall.returned = <<>> <=> ~canUndo(before, id)
         /\ lastCall.returned = <<>> => byRequest = before
    /\ LastCallWas("redo", id) =>
         /\ lastCall.returned = <<>> <=> ~canRedo(before, id)
         /\ lastCall.returned = <<>> => byRequest = before

\* undo on "r1", which has no state, while "r2" is at index 0 of two entries:
\* nothing returned, nothing created.
C13_Witness ==
  /\ LastCallWas("undo", "r1")
  /\ "r1" \notin DOMAIN before
  /\ "r1" \notin DOMAIN byRequest
  /\ lastCall.returned = <<>>
  /\ "r2" \in DOMAIN byRequest
  /\ byRequest["r2"].index = 0
  /\ Len(byRequest["r2"].entries) = 2

\* C15: a store call on one request id leaves every other id as it was: an
\* id without a state still has none, an id with a state has the same entries
\* and index.
C15_OtherRequestsUntouched ==
  \A id \in RequestIds :
    (lastCall.op # "none" /\ lastCall.requestId # id) =>
      /\ id \in DOMAIN byRequest <=> id \in DOMAIN before
      /\ id \in DOMAIN before =>
           /\ byRequest[id].entries = before[id].entries
           /\ byRequest[id].index = before[id].index

\* A capture changed "r1" while "r2" held 30 entries with index 28.
C15_Witness ==
  /\ LastCallWas("captureSnapshot", "r1")
  /\ "r1" \in DOMAIN before
  /\ byRequest["r1"] # before["r1"]
  /\ "r2" \in DOMAIN byRequest
  /\ Len(byRequest["r2"].entries) = 30
  /\ byRequest["r2"].index = 28

\* C16: clearRequestHistory(id) removes the state of id; while id has no
\* state canUndo(id) and canRedo(id) are false, undo(id) and redo(id) return
\* nothing and create no state, and captureSnapshot(id, s) gives what
\* initRequestHistory(id, s) gives: the single entry of s with index 0.
C16_ClearBackToUninitialized ==
  \A id \in RequestIds :
    /\ LastCallWas("clearRequestHistory", id) => id \notin DOMAIN byRequest
    /\ id \notin DOMAIN byRequest => (~canUndo(byRequest, id) /\ ~canRedo(byRequest, id))
    /\ id \notin DOMAIN before =>
         /\ lastCall.op \in {"undo", "redo"} /\ lastCall.requestId = id =>
              (lastCall.returned = <<>> /\ id \notin DOMAIN byRequest)
         /\ \A s \in Snapshots :
              (/\ lastCall.op \in {"captureSnapshot", "initRequestHistory"}
               /\ lastCall.requestId = id
               /\ lastCall.snapshot = <<s>>) =>
                (/\ id \in DOMAIN byRequest
                 /\ byRequest[id] = [entries |-> <<EntryOf(s)>>, index |-> 0])

\* "r2" was cleared with 30 entries and index 28.
C16_Witness ==
  /\ LastCallWas("clearRequestHistory", "r2")
  /\ "r2" \in DOMAIN before
  /\ Len(before["r2"].entries) = 30
  /\ before["r2"].index = 28
  /\ "r2" \notin DOMAIN byRequest

\* The references held by the entries of the store, and what the caller can
\* reach through the references it holds.
StoredRefs ==
  UNION {{refStore[id].entries[k].snapshot : k \in DOMAIN refStore[id].entries} :
           id \in DOMAIN refStore}
HeldReach == UNION {Reach(heap, r) : r \in DOMAIN held}
StoredContents == {storedAs[r] : r \in StoredRefs}

\* C14: stored snapshots never alias caller-visible objects: whatever the
\* caller assigns, before or after, into an object it passed to
\* initRequestHistory or captureSnapshot or got back from undo or redo, every
\* stored entry reads as it did when it was stored, no object of a stored
\* entry can be reached from a reference the caller holds, and what undo or
\* redo returns reads as the entry at the new index did when it was stored.
C14_StoredSnapshotsNotAliased ==
  /\ \A r \in StoredRefs :
       /\ DeepValue(heap, r) = storedAs[r]
       /\ Reach(heap, r) \cap HeldReach = {}
  /\ \A id \in DOMAIN refStore :
       (aliasCall.op \in {"undo", "redo"} /\ aliasCall.returned # NoRef) =>
         /\ DeepValue(heap, aliasCall.returned) = storedAs[ActiveOf(refStore[id]).snapshot]
         /\ aliasCall.returned \notin StoredRefs

\* The caller changed the object it had passed in and the object an undo had
\* returned, both to contents the store does not hold, and then called redo.
C14_Witness ==
  /\ aliasCall.op = "redo"
  /\ aliasCall.returned # NoRef
  /\ \E u \in DOMAIN held :
       /\ held[u] = "returned"
       /\ u # aliasCall.returned
       /\ DeepValue(heap, u) \notin StoredContents
  /\ \E q \in DOMAIN held :
       /\ held[q] = "passed"
       /\ DeepValue(heap, q) \notin StoredContents

\* raw is one token of the syntax: the opener, white space, a non-empty run of
\* key characters, white space, the closer.
IsTokenText(raw, syntax) ==
  LET from == Len(Opener(syntax)) + 1
      to == Len(raw) - Len(Closer(syntax))
      keyAt == {k \in from..to : raw[k] \in KeyChars}
  IN  /\ Len(raw) > Len(Opener(syntax)) + Len(Closer(syntax))
      /\ SubSeq(raw, 1, from - 1) = Opener(syntax)
      /\ SubSeq(raw, to + 1, Len(raw)) = Closer(syntax)
      /\ keyAt # {}
      /\ \A k \in from..to : raw[k] \in KeyChars \cup SpaceChars
      /\ \A j, k \in keyAt : \A m \in j..k : m \in keyAt

IsKeyChar(c) == c \in KeyChars
KeyOfTokenText(raw) == SelectSeq(raw, IsKeyChar)

\* A token of the syntax is written at offset i (0-based) of text.
OccursAt(text, i, syntax) ==
  \E e \in (i + 1)..Len(text) : IsTokenText(SubSeq(text, i + 1, e), syntax)

TokensAt(i, syntax) ==
  {k \in DOMAIN tTokens : tTokens[k].index = i /\ tTokens[k].syntax = syntax}

\* C17: extractVariableTokens returns one token for every place of the input
\* where a {{key}} or a ${key} is written, and no other: each token carries
\* its offset, its raw text as it stands there and its key, a key that occurs
\* several times or in both syntaxes gives a token each time, the offsets are
\* strictly ascending, and null, undefined and the empty text give no token.
C17_OneTokenPerOccurrence ==
  tpc \in {"extracted", "resolved", "found", "rendered"} =>
    LET text == ToText(tInput)
    IN  /\ \A k \in DOMAIN tTokens :
             /\ tTokens[k].syntax \in {"double-curly", "dollar-brace"}
             /\ tTokens[k].index >= 0
             /\ tTokens[k].index + Len(tTokens[k].raw) <= Len(text)
             /\ tTokens[k].raw =
                  SubSeq(text, tTokens[k].index + 1, tTokens[k].index + Len(tTokens[k].raw))
             /\ IsTokenText(tTokens[k].raw, tTokens[k].syntax)
             /\ tTokens[k].key = KeyOfTokenText(tTokens[k].raw)
        /\ \A i \in 0..(Len(text) - 1) : \A syntax \in {"double-curly", "dollar-brace"} :
             Cardinality(TokensAt(i, syntax)) = IF OccursAt(text, i, syntax) THEN 1 ELSE 0
        /\ \A k \in 1..(Len(tTokens) - 1) : tTokens[k].index < tTokens[k + 1].index
        /\ (tInput.type \in {"null", "undefined"} \/ tInput = Str(<<>>)) => tTokens = <<>>

\* "{{a}}${ a }{{a}}": the key a three times, in both syntaxes, in the order
\* of the text.
C17_Witness ==
  /\ tpc = "extracted"
  /\ Len(tTokens) = 3
  /\ \A k \in 1..3 : tTokens[k].key = KeyA
  /\ tTokens[1].syntax = "double-curly"
  /\ tTokens[2].syntax = "dollar-brace"
  /\ tTokens[3].syntax = "double-curly"
  /\ tTokens[2].index = 5
  /\ tTokens[3].index = 11

\* context.values has an entry for key, and it is not null or undefined.
HasEntry(context, key) ==
  key \in DOMAIN context.values /\ ~IsNullish(context.values[key])

\* C18: resolveVariableToken(token, context) is absent if and only if
\* context.values has no entry for token.key (or a null / undefined one), for
\* every key the token grammar admits; otherwise it carries the key and the
\* entry's value, also when that value is the empty string.
C18_AbsentIffNoEntry ==
  tpc \in {"resolved", "found", "rendered"} =>
    \A k \in DOMAIN tTokens :
      /\ tResolutions[k] = NoResolution <=> ~HasEntry(tContext, tTokens[k].key)
      /\ HasEntry(tContext, tTokens[k].key) =>
           /\ tResolutions[k].key = tTokens[k].key
           /\ tResolutions[k].value = tContext.values[tTokens[k].key]

RECURSIVE Substituted(_, _, _, _)
\* text from position `from` on, with each of the tokens (ascending) that has
\* a resolution replaced by the resolution's value and everything else as it
\* stands.
Substituted(text, from, tokens, resolutions) ==
  IF tokens = <<>> THEN SubSeq(text, from, Len(text))
  ELSE SubSeq(text, from, Head(tokens).index)
         \o (IF Head(resolutions) = NoResolution
               THEN Head(tokens).raw
               ELSE ToStringValue(Head(resolutions).value))
         \o Substituted(text, Head(tokens).index + Len(Head(tokens).raw) + 1,
                        Tail(tokens), Tail(resolutions))

\* C19: the output of resolveTemplateText(input, context) is the input with
\* each token of the input that resolves replaced in place by its value and
\* every other character, every unresolvable token included, left as it
\* stands; an inserted value is not read as template text again.
C19_RenderSubstitutesInPlace ==
  tpc = "rendered" =>
    tRendered.output = Substituted(ToText(tInput), 1, tTokens, tResolutions)

Members(seq) == {seq[k] : k \in DOMAIN seq}
NoRepeats(seq) == \A j, k \in DOMAIN seq : seq[j] = seq[k] => j = k

\* C20: the unresolved list of resolveTemplateText(input, context) holds
\* exactly the keys findUnresolvedVariables(input, context) returns: the key
\* of each token of the input without a resolution, once, and no other key.
C20_UnresolvedListsAgree ==
  tpc = "rendered" =>
    /\ Members(tRendered.unresolved) = Members(tUnresolved)
    /\ Members(tUnresolved) =
         {tTokens[k].key : k \in {j \in DOMAIN tTokens : tResolutions[j] = NoResolution}}
    /\ NoRepeats(tRendered.unresolved)
    /\ NoRepeats(tUnresolved)

\* C28: initRequestHistory(id, s) always leaves id with exactly one entry,
\* holding s, and index 0, also when id already had a state: the entries it
\* had, with their undo and redo history, are gone.
C28_InitReplacesHistory ==
  \A id \in RequestIds : \A s \in Snapshots :
    (LastCallWas("initRequestHistory", id) /\ lastCall.snapshot = <<s>>) =>
      /\ id \in DOMAIN byRequest
      /\ byRequest[id] = [entries |-> <<EntryOf(s)>>, index |-> 0]
      /\ ~canUndo(byRequest, id)
      /\ ~canRedo(byRequest, id)

\* "r2" held 30 entries and stood two steps below the newest when it was
\* initialised again.
C28_Witness ==
  /\ LastCallWas("initRequestHistory", "r2")
  /\ "r2" \in DOMAIN before
  /\ Len(before["r2"].entries) = 30
  /\ before["r2"].index = 27
  /\ Len(byRequest["r2"].entries) = 1

\* C29: after any sequence of store calls no two adjacent entries of a
\* Revision State have the same hash; entries that are not adjacent may.
C29_AdjacentHashesDiffer ==
  \A id \in DOMAIN byRequest :
    \A k \in 1..(Len(byRequest[id].entries) - 1) :
      byRequest[id].entries[k].hash # byRequest[id].entries[k + 1].hash

\* "r2" holds the same snapshot at its first and third entry; "r1" was undone
\* to "A" and captured "A2", of the same hash, which added nothing.
C29_Witness ==
  /\ "r2" \in DOMAIN byRequest
  /\ Len(byRequest["r2"].entries) = 3
  /\ byRequest["r2"].entries[1].hash = byRequest["r2"].entries[3].hash
  /\ CapturedOver("r1", "A2")
  /\ Len(before["r1"].entries) = 2
  /\ before["r1"].index = 0
  /\ ActiveOf(before["r1"]).snapshot = "A"

\* The row count of an id in the report.
RowCount(id) == Cardinality({k \in DOMAIN report.items : report.items[k].requestId = id})

C22_HooksAwaited ==
  phase = "returned" =>
    /\ pendingErrorHooks = {}
    /\ \A r \in DOMAIN runners : runners[r].pc = "returned"

\* C25: the rows of the report are in input order: row k is the row of item k.
C25_RowsInInputOrder ==
  phase = "returned" =>
    /\ Len(report.items) = N
    /\ \A i \in Indices :
         report.items[i + 1].requestId \in {items[i + 1].requestId, ErrorRequestId(items, i)}

\* Every worker invocation has settled and its settlement is in its slot.
AllSettled ==
  \A i \in Indices :
    /\ invoked[i] = 1
    /\ workerOutcome[i].status \in {"fulfilled", "rejected"}
    /\ results[i] = workerOutcome[i]

\* C23: provided every worker invocation settles, a started
\* runWithConcurrency resolves; when it has resolved, all N invocations have
\* settled and every index holds its settlement; over an empty list it
\* resolves with an empty list and the worker is never invoked.
C23_ResolvesWhenAllSettled ==
  /\ [](Resolved => AllSettled)
  /\ []((N = 0 /\ phase # "idle") => (runners = <<>> /\ results = <<>> /\ cursor = 0))
  /\ (phase = "running") ~> Resolved

\* Two items on one runner have both settled, one rejected, and
\* runWithConcurrency has resolved.
C23_Witness ==
  /\ phase = "collected"
  /\ N = 2
  /\ Len(runners) = 1
  /\ results[0].status = "rejected"
  /\ results[1].status = "fulfilled"

\* The runners whose worker promise has settled and that have not resumed.
Resuming(rs) == Cardinality({r \in DOMAIN rs : rs[r].pc = "settled"})

\* C24: the pool is work-conserving.  While an item is unclaimed no runner
\* has returned: each of the max(1, min(concurrency, N)) runners has a
\* worker invocation that is in flight or has just settled, and a runner
\* whose invocation settled claims the next index as it resumes.  So with
\* two runners, if what item 0 awaits never settles, every item behind it
\* is still claimed and settled by the other runner.
C24_WorkConserving ==
  /\ []((phase = "running" /\ cursor < N) =>
          /\ Len(runners) = Clamped
          /\ \A r \in DOMAIN runners : runners[r].pc # "returned"
          /\ InFlight(runners) + Resuming(runners) = Clamped)
  /\ (phase = "running") ~> (\A i \in Indices \ {0} : results[i] = workerOutcome[i]
                                                      /\ results[i].status # "unset")

\* Item 0 is still in its execute while the other of the two runners has
\* settled items 1 and 2 one after the other, the first of them rejected.
C24_Witness ==
  /\ phase = "running"
  /\ N = 3
  /\ Len(runners) = 2
  /\ \E r \in DOMAIN runners : runners[r].idx = 0 /\ runners[r].pc = "execute"
  /\ results[1].status = "rejected"
  /\ results[2].status = "fulfilled"

\* C24 as stated: while an item is unclaimed the number of invocations
\* started and not yet settled equals the limit.
C24_AsStated ==
  (phase = "running" /\ cursor < N) => InFlight(runners) = Clamped

\* C26: undo and redo are inverse steps.  After k successful undos of a
\* request, each of the next redos (up to k) is possible and returns the
\* snapshot that was current before the matching undo, the latest undone
\* first, and after the k-th the request has the entries and index it had
\* before the first undo; the same holds with undo and redo exchanged.
C26_UndoRedoInverse ==
  trip.id # "none" =>
    /\ \A j \in 1..Len(trip.back) :
         trip.back[j] = trip.forward[Len(trip.forward) - j + 1]
    /\ Len(trip.back) = Len(trip.forward) =>
         (trip.id \in DOMAIN byRequest /\ byRequest[trip.id] = trip.start)
    /\ Len(trip.back) < Len(trip.forward) =>
         IF trip.dir = "undo" THEN canRedo(byRequest, trip.id)
                              ELSE canUndo(byRequest, trip.id)

\* Two undos were followed by two redos, which returned two different
\* snapshots.
C26_Witness ==
  /\ trip.dir = "undo"
  /\ Len(trip.forward) = 2
  /\ Len(trip.back) = 2
  /\ trip.back[1] # trip.back[2]
  /\ lastCall.op = "redo"

\* The last call captured s over a state whose active snapshot was t.
CapturedOnto(s, t) ==
  /\ CapturedOver("r1", s)
  /\ ActiveOf(before["r1"]).snapshot = t

C30_UnlockedOnlyOnSuccess ==
  lockCall.op = "setUnlocked" =>
    /\ lock # lockBefore => unlock.status = "unlocked"
    /\ lockCall.returned \in {<<FALSE>>, <<>>} => lock = lockBefore

====
